---------------------------- MODULE Spec2Model ----------------------------
(***************************************************************************)
(* Model of the retry/backoff wrappers of src/utils/retry.py and           *)
(* src/utils/retry_handler.py.                                             *)
(*                                                                         *)
(* One execution of a decorated function (or of RetryableAPICall.execute)  *)
(* is followed from the construction of its policy to the value it returns *)
(* or the exception it raises.  The wrapped operation is the environment:  *)
(* on every invocation it returns one of Values or raises one of OpErrors. *)
(*                                                                         *)
(* Delays are exact rationals, kept as integer numbers of ticks, Sec ticks *)
(* to the second.  random.random() and random.uniform() are a choice over  *)
(* a grid of JDen steps of their range.                                    *)
(***************************************************************************)
EXTENDS Integers, Sequences, FiniteSets, TLC

(***************************************************************************)
(* Bounds of the model                                                     *)
(***************************************************************************)
\* largest max_retries a generic policy is constructed with
MaxRetries == 2
\* steps of the grid random draws and jitter fractions are taken from
JDen == 4

(***************************************************************************)
(* Program constants                                                       *)
(***************************************************************************)
\* retry.py:94  jitter_amount = delay * 0.25  (one quarter)
Quarter == 4
\* retry.py:97  delay = max(0.1, delay)  (one tenth of a second)
Tenth == 10
\* ticks per second: every delay of the model is a whole number of ticks
Sec == Quarter * Tenth * 2 * JDen * JDen

Min(a, b) == IF a <= b THEN a ELSE b
Max(a, b) == IF a >= b THEN a ELSE b

RECURSIVE Pow(_, _)
Pow(b, n) == IF n <= 0 THEN 1 ELSE b * Pow(b, n - 1)

(***************************************************************************)
(* Exceptions.  A message is the set of the markers its lowercased text    *)
(* contains; retry_after / data are {} for None and {h} for a hint of h    *)
(* seconds; at is the invocation that raised it and by tells whether the   *)
(* wrapped function raised it or a classifier constructed it.              *)
(***************************************************************************)
ClassParent ==
  [ Exception |-> "Exception",
    RetryableError |-> "Exception",
    RateLimitError |-> "RetryableError",
    NetworkError |-> "RetryableError",
    ConnectionError |-> "Exception",
    TimeoutError |-> "Exception",
    ValueError |-> "Exception",
    TypeError |-> "Exception",
    GithubException |-> "Exception",
    RateLimitExceededException |-> "GithubException" ]

RECURSIVE IsSubclass(_, _)
IsSubclass(t, c) ==
  \/ t = c
  \/ t # "Exception" /\ IsSubclass(ClassParent[t], c)

\* isinstance(e, classes) / an except clause naming the tuple classes
IsInstance(e, classes) == \E c \in classes : IsSubclass(e.type, c)

NoExc ==
  [type |-> "None", markers |-> {}, retry_after |-> {}, data |-> {},
   at |-> 0, by |-> "none"]

Err(t, m, ra, d) ==
  [type |-> t, markers |-> m, retry_after |-> ra, data |-> d,
   at |-> 0, by |-> "op"]

\* what the wrapped operation may raise
OpErrors ==
  { Err("ValueError", {}, {}, {}),
    Err("ValueError", {"timeout"}, {}, {}),
    Err("ValueError", {"500"}, {}, {}),
    Err("ValueError", {"429"}, {}, {}),
    Err("ValueError", {"timed out"}, {}, {}),
    Err("ValueError", {"network"}, {}, {}),
    Err("ValueError", {"temporary"}, {}, {}),
    Err("ValueError", {"unavailable"}, {}, {}),
    Err("ValueError", {"503"}, {}, {}),
    Err("ValueError", {"502"}, {}, {}),
    Err("ValueError", {"too many requests"}, {}, {}),
    Err("ConnectionError", {"connection"}, {}, {}),
    Err("RateLimitError", {"rate limit"}, {}, {}),
    Err("RateLimitError", {"rate limit"}, {0}, {}),
    Err("RateLimitError", {"rate limit"}, {1}, {}),
    Err("GithubException", {"403"}, {}, {}),
    Err("GithubException", {"403", "abuse"}, {}, {2}),
    Err("GithubException", {"rate limit"}, {}, {500}),
    Err("RateLimitExceededException", {"403", "rate limit"}, {}, {}) }

\* what the wrapped operation may return
Values == {"v1", "v2"}

(***************************************************************************)
(* retry.py                                                                *)
(***************************************************************************)
\* the policies RetryConfig is constructed with (in ticks)
RetryConfigs ==
  [ max_retries : (0 - 1) .. MaxRetries,
    base_delay : {Sec \div 20, Sec},
    max_delay : {Sec \div 2, (3 * Sec) \div 2},
    multiplier : {1, 2},
    jitter : BOOLEAN,
    jitter_range : {0} ]

ANTHROPIC_RETRY_CONFIG ==
  [ max_retries |-> 5, base_delay |-> 1 * Sec, max_delay |-> 60 * Sec,
    multiplier |-> 2, jitter |-> TRUE, jitter_range |-> 0 ]

GITHUB_RETRY_CONFIG ==
  [ max_retries |-> 3, base_delay |-> 2 * Sec, max_delay |-> 120 * Sec,
    multiplier |-> 2, jitter |-> TRUE, jitter_range |-> 0 ]

\* calculate_delay without the cap on the hint: return float(retry_after)
calculate_delayUncappedHint(attempt, config, rate_limit_retry_after, u) ==
  IF rate_limit_retry_after # {}
  THEN LET h == CHOOSE x \in rate_limit_retry_after : TRUE
       IN  h * Sec
  ELSE LET delay == Min(config.base_delay * Pow(config.multiplier, attempt),
                        config.max_delay)
       IN  IF config.jitter
           THEN Max(Sec \div Tenth, delay + (delay * u) \div (Quarter * JDen))
           ELSE delay

\* calculate_delay(attempt, config, rate_limit_retry_after); u in -JDen..JDen
\* is the draw of random.uniform(-jitter_amount, jitter_amount) as a
\* fraction u/JDen of jitter_amount
calculate_delay(attempt, config, rate_limit_retry_after, u) ==
  IF rate_limit_retry_after # {}
  THEN LET h == CHOOSE x \in rate_limit_retry_after : TRUE
       IN  Min(h * Sec, config.max_delay)
  ELSE LET delay == Min(config.base_delay * Pow(config.multiplier, attempt),
                        config.max_delay)
       IN  IF config.jitter
           THEN Max(Sec \div Tenth, delay + (delay * u) \div (Quarter * JDen))
           ELSE delay

TransientIndicators ==
  {"timeout", "timed out", "connection", "network", "temporary",
   "unavailable", "503", "502", "429", "rate limit", "too many requests"}

\* should_retry testing isinstance(exception, Exception) in place of the tuple
should_retryAnyException(exception, retryable_exceptions) ==
  \/ IsInstance(exception, {"Exception"})
  \/ exception.markers \cap TransientIndicators # {}

\* should_retry taking a server error, "500", for a transient marker too
should_retryWith500(exception, retryable_exceptions) ==
  \/ IsInstance(exception, retryable_exceptions)
  \/ exception.markers \cap (TransientIndicators \cup {"500"}) # {}

should_retry(exception, retryable_exceptions) ==
  \/ IsInstance(exception, retryable_exceptions)
  \/ exception.markers \cap TransientIndicators # {}

RateLimitErrorNew(retry_after, e) ==
  [type |-> "RateLimitError", markers |-> {"rate limit"},
   retry_after |-> retry_after, data |-> {}, at |-> e.at, by |-> "classify"]

NetworkErrorNew(e) ==
  [type |-> "NetworkError", markers |-> e.markers,
   retry_after |-> {}, data |-> {}, at |-> e.at, by |-> "classify"]

classify_anthropic_exception(e) ==
  IF e.markers \cap {"rate limit", "429", "too many requests"} # {}
  THEN RateLimitErrorNew({}, e)
  ELSE IF e.markers \cap {"connection", "timeout", "network", "503", "502"} # {}
  THEN NetworkErrorNew(e)
  ELSE e

\* classify_github_exception that does not take "403" for a rate limit
classify_github_exceptionNo403(e) ==
  IF e.markers \cap {"rate limit", "abuse"} # {}
  THEN RateLimitErrorNew(e.data, e)
  ELSE IF e.markers \cap {"connection", "timeout", "network", "503", "502", "500"} # {}
  THEN NetworkErrorNew(e)
  ELSE e

classify_github_exception(e) ==
  IF e.markers \cap {"rate limit", "403", "abuse"} # {}
  THEN RateLimitErrorNew(e.data, e)
  ELSE IF e.markers \cap {"connection", "timeout", "network", "503", "502", "500"} # {}
  THEN NetworkErrorNew(e)
  ELSE e


\* RetryableError, ConnectionError, TimeoutError: the allowlist of
\* retry_anthropic_api and retry_github_api
ApiRetryable == {"RetryableError", "ConnectionError", "TimeoutError"}

\* the retryable_exceptions tuples retry_with_backoff is decorated with
RetryableTuples == { {"Exception"}, ApiRetryable }

(***************************************************************************)
(* retry_handler.py                                                        *)
(***************************************************************************)
\* the policies retry_with_backoff and RetryableAPICall are constructed with;
\* jitter_range is a numerator over JDen
HandlerPolicies ==
  [ max_retries : (0 - 1) .. MaxRetries,
    base_delay : {Sec \div 20, Sec},
    max_delay : {Sec \div 2, (3 * Sec) \div 2},
    multiplier : {1, 2},
    jitter : {FALSE},
    jitter_range : {0, 1, JDen} ]

\* the (exceptions, rate_limit_exceptions) tuples the decorator is given
HandlerCatches ==
  { [exceptions |-> {"Exception"}, rate_limit_exceptions |-> {}],
    [exceptions |-> {"ConnectionError"}, rate_limit_exceptions |-> {"RateLimitError"}],
    [exceptions |-> {"GithubException"},
     rate_limit_exceptions |-> {"RateLimitExceededException"}] }

\* calculate_backoff_delay without min(..., max_delay)
calculate_backoff_delayNoCap(attempt, base_delay, max_delay, multiplier, jitter_range, r) ==
  LET delay == base_delay * Pow(multiplier, attempt)
      jitter == (delay * jitter_range * r) \div (JDen * JDen)
  IN  Max(0, delay + jitter)

\* calculate_backoff_delay whose jitter is not scaled by jitter_range
calculate_backoff_delayFullJitter(attempt, base_delay, max_delay, multiplier, jitter_range, r) ==
  LET delay == Min(base_delay * Pow(multiplier, attempt), max_delay)
      jitter == (delay * r) \div JDen
  IN  Max(0, delay + jitter)

\* calculate_backoff_delay(attempt, base_delay, max_delay, multiplier,
\* jitter_range); r in -JDen..JDen-1 is the value of 2*random.random()-1 as
\* a fraction r/JDen
calculate_backoff_delay(attempt, base_delay, max_delay, multiplier, jitter_range, r) ==
  LET delay == Min(base_delay * Pow(multiplier, attempt), max_delay)
      jitter == (delay * jitter_range * r) \div (JDen * JDen)
  IN  Max(0, delay + jitter)

(***************************************************************************)
(* State                                                                   *)
(***************************************************************************)
VARIABLES
  pc,              \* where the execution is: new, ready, loop, on_retry, sleeping, returned, raised
  module,          \* the wrapper that runs
  config,          \* its policy
  catch,           \* the exception tuples it was decorated with
  attempt,         \* the loop variable of the wrapper
  last_exception,  \* the wrapper's local of that name
  delay,           \* the argument of the time.sleep call in progress
  calls,           \* invocations of the wrapped operation so far
  sleeps,          \* calls of time.sleep so far
  op,              \* what the latest invocation of the operation returned or raised
  result,          \* what the wrapper returned or raised to its caller
  on_retry,        \* retry.py: the on_retry callback, its calls so far and the arguments of the latest
  workers,         \* concurrent executions: the locals of each wrapper call
  history,         \* concurrent executions: what the operation did on each one's invocations
  call             \* deduplication: the latest call of IssueDuplicateChecker and what it returned

vars ==
  <<pc, module, config, catch, attempt, last_exception, delay, calls, sleeps,
    op, result, on_retry, workers, history, call>>

\* the state of one execution of a wrapper
execution ==
  <<pc, module, config, catch, attempt, last_exception, delay, calls, sleeps,
    op, result, on_retry>>

\* the state the retry wrappers of one execution never touch
elsewhere == <<workers, history, call>>

\* no concurrent execution is followed
NoWorkers == <<>>

\* no method of IssueDuplicateChecker was called
NoCall == [fn |-> "none"]

NoConfig ==
  [ max_retries |-> 0, base_delay |-> 0, max_delay |-> 0, multiplier |-> 0,
    jitter |-> FALSE, jitter_range |-> 0 ]

NoCatch == [exceptions |-> {}, rate_limit_exceptions |-> {}]

NoOp == [value |-> "None", exc |-> NoExc]

NoResult == [kind |-> "none", value |-> "None", exc |-> NoExc]

\* on_retry=None, the default of retry_with_backoff
NoCallback == [given |-> FALSE, count |-> 0, args |-> <<>>]

\* on_retry=f for a function f(exception, attempt, delay) that returns
Callback == [given |-> TRUE, count |-> 0, args |-> <<>>]

Returned(v) == [kind |-> "returned", value |-> v, exc |-> NoExc]

Raised(e) == [kind |-> "raised", value |-> "None", exc |-> e]

Init ==
  /\ pc = "new"
  /\ module = "none"
  /\ config = NoConfig
  /\ catch = NoCatch
  /\ attempt = 0
  /\ last_exception = NoExc
  /\ delay = 0
  /\ calls = 0
  /\ sleeps = 0
  /\ op = NoOp
  /\ result = NoResult
  /\ on_retry = NoCallback
  /\ workers = NoWorkers
  /\ history = NoWorkers
  /\ call = NoCall

(***************************************************************************)
(* Construction: the policy object or the decorator.  None of the          *)
(* constructors looks at the values it is given.                           *)
(***************************************************************************)
ConstructWith(m, c, k, cb) ==
  /\ pc = "new"
  /\ pc' = "ready"
  /\ module' = m
  /\ config' = c
  /\ catch' = k
  /\ on_retry' = cb
  /\ UNCHANGED <<attempt, last_exception, delay, calls, sleeps, op, result>>
  /\ UNCHANGED elsewhere

Construct(m, c, k) == ConstructWith(m, c, k, NoCallback)

\* retry.py: RetryConfig(...) handed to
\* retry_with_backoff(config, retryable_exceptions, on_retry)
RetryDecorate ==
  \E c \in RetryConfigs, t \in RetryableTuples, cb \in {NoCallback, Callback} :
    ConstructWith("retry", c, [exceptions |-> t, rate_limit_exceptions |-> {}], cb)

\* retry.py: @retry_anthropic_api
RetryAnthropicDecorate ==
  Construct("retry_anthropic", ANTHROPIC_RETRY_CONFIG,
            [exceptions |-> ApiRetryable, rate_limit_exceptions |-> {}])

\* retry.py: @retry_github_api
RetryGithubDecorate ==
  Construct("retry_github", GITHUB_RETRY_CONFIG,
            [exceptions |-> ApiRetryable, rate_limit_exceptions |-> {}])

\* retry_handler.py: @retry_with_backoff(max_retries, ..., exceptions, rate_limit_exceptions)
HandlerDecorate ==
  \E c \in HandlerPolicies, k \in HandlerCatches : Construct("handler", c, k)

\* retry_handler.py: RetryableAPICall(max_retries, ...)
RetryableAPICallInit ==
  \E c \in HandlerPolicies :
    Construct("execute", c, [exceptions |-> {"Exception"}, rate_limit_exceptions |-> {}])

(***************************************************************************)
(* The steps every wrapper is made of                                      *)
(***************************************************************************)
\* the wrapper calls the operation and forgets to return its value
ReturnValueDropped(v) ==
  /\ pc' = "returned"
  /\ calls' = calls + 1
  /\ op' = [value |-> v, exc |-> NoExc]
  /\ result' = Returned("None")
  /\ UNCHANGED <<module, config, catch, attempt, last_exception, delay, sleeps,
                 on_retry>>
  /\ UNCHANGED elsewhere

\* the wrapped operation returned v, and the wrapper returns it
ReturnValue(v) ==
  /\ pc' = "returned"
  /\ calls' = calls + 1
  /\ op' = [value |-> v, exc |-> NoExc]
  /\ result' = Returned(v)
  /\ UNCHANGED <<module, config, catch, attempt, last_exception, delay, sleeps,
                 on_retry>>
  /\ UNCHANGED elsewhere

\* the operation raised r; the handler bound e to last_exception and re-raised
Reraise(r, e) ==
  /\ pc' = "raised"
  /\ calls' = calls + 1
  /\ op' = [value |-> "None", exc |-> r]
  /\ last_exception' = e
  /\ result' = Raised(e)
  /\ UNCHANGED <<module, config, catch, attempt, delay, sleeps, on_retry>>
  /\ UNCHANGED elsewhere

\* the operation raised r and no except clause of the wrapper matched it
Propagate(r) ==
  /\ pc' = "raised"
  /\ calls' = calls + 1
  /\ op' = [value |-> "None", exc |-> r]
  /\ result' = Raised(r)
  /\ UNCHANGED <<module, config, catch, attempt, last_exception, delay, sleeps,
                 on_retry>>
  /\ UNCHANGED elsewhere

\* the operation raised r; the handler bound e and called time.sleep(d)
Sleep(r, e, d) ==
  /\ pc' = "sleeping"
  /\ calls' = calls + 1
  /\ sleeps' = sleeps + 1
  /\ op' = [value |-> "None", exc |-> r]
  /\ last_exception' = e
  /\ delay' = d
  /\ UNCHANGED <<module, config, catch, attempt, result, on_retry>>
  /\ UNCHANGED elsewhere

\* on_retry called with the loop variable itself, on_retry(e, attempt, delay)
CallOnRetryZeroBased(r, e, d) ==
  /\ pc' = "on_retry"
  /\ calls' = calls + 1
  /\ op' = [value |-> "None", exc |-> r]
  /\ last_exception' = e
  /\ delay' = d
  /\ on_retry' = [on_retry EXCEPT !.count = @ + 1, !.args = <<e, attempt, d>>]
  /\ UNCHANGED <<module, config, catch, attempt, sleeps, result>>
  /\ UNCHANGED elsewhere

\* retry.py: the operation raised r; the handler bound e, computed the
\* delay d and calls on_retry(e, attempt + 1, delay)
CallOnRetry(r, e, d) ==
  /\ pc' = "on_retry"
  /\ calls' = calls + 1
  /\ op' = [value |-> "None", exc |-> r]
  /\ last_exception' = e
  /\ delay' = d
  /\ on_retry' = [on_retry EXCEPT !.count = @ + 1, !.args = <<e, attempt + 1, d>>]
  /\ UNCHANGED <<module, config, catch, attempt, sleeps, result>>
  /\ UNCHANGED elsewhere

\* retry.py: on_retry returned and the handler calls time.sleep(delay)
OnRetryReturns ==
  /\ pc = "on_retry"
  /\ pc' = "sleeping"
  /\ sleeps' = sleeps + 1
  /\ UNCHANGED <<module, config, catch, attempt, last_exception, delay, calls,
                 op, result, on_retry>>
  /\ UNCHANGED elsewhere

\* range(max_retries + 1) has an element a
InRange(a, max_retries) == 0 <= a /\ a < max_retries + 1

\* retry.py: the statement after the loop, raise last_exception; raising None
\* is a TypeError of the interpreter
RetryAfterLoop(le) ==
  IF le = NoExc
  THEN Raised([type |-> "TypeError", markers |-> {}, retry_after |-> {},
               data |-> {}, at |-> 0, by |-> "machinery"])
  ELSE Raised(le)

\* retry_handler.py: the statements after the loop, if last_exception: raise
\* last_exception; without it the function ends and returns None
HandlerAfterLoop(le) ==
  IF le # NoExc THEN Raised(le) ELSE Returned("None")

AfterLoop(m, le) ==
  IF m \in {"retry", "retry_anthropic", "retry_github"}
  THEN RetryAfterLoop(le)
  ELSE HandlerAfterLoop(le)

\* the wrapper is called: last_exception = None and the loop starts
Enter ==
  /\ pc = "ready"
  /\ attempt' = 0
  /\ last_exception' = NoExc
  /\ IF InRange(0, config.max_retries)
     THEN pc' = "loop" /\ result' = result
     ELSE /\ result' = AfterLoop(module, NoExc)
          /\ pc' = result'.kind
  /\ UNCHANGED <<module, config, catch, delay, calls, sleeps, op, on_retry>>
  /\ UNCHANGED elsewhere

\* a loop that counts only the generic failures: the attempt index stays
\* where it is after a rate-limited one
WakeRateLimitUncounted ==
  /\ pc = "sleeping"
  /\ attempt' = IF IsInstance(last_exception, catch.rate_limit_exceptions)
                THEN attempt
                ELSE attempt + 1
  /\ delay' = 0
  /\ IF InRange(attempt', config.max_retries)
     THEN pc' = "loop" /\ result' = result
     ELSE /\ result' = AfterLoop(module, last_exception)
          /\ pc' = result'.kind
  /\ on_retry' = [on_retry EXCEPT !.args = <<>>]
  /\ UNCHANGED <<module, config, catch, last_exception, calls, sleeps, op>>
  /\ UNCHANGED elsewhere

\* time.sleep returns and the loop goes to its next iteration
Wake ==
  /\ pc = "sleeping"
  /\ attempt' = attempt + 1
  /\ delay' = 0
  /\ IF InRange(attempt + 1, config.max_retries)
     THEN pc' = "loop" /\ result' = result
     ELSE /\ result' = AfterLoop(module, last_exception)
          /\ pc' = result'.kind
  /\ on_retry' = [on_retry EXCEPT !.args = <<>>]
  /\ UNCHANGED <<module, config, catch, last_exception, calls, sleeps, op>>
  /\ UNCHANGED elsewhere

(***************************************************************************)
(* retry.py: one iteration of retry_with_backoff's wrapper                 *)
(***************************************************************************)
\* what inner() of retry_anthropic_api / retry_github_api raises when func
\* raised e: the classified exception (raise classified from e) or e itself
InnerRaises(m, e) ==
  CASE m = "retry_anthropic" -> classify_anthropic_exception(e)
    [] m = "retry_github" -> classify_github_exception(e)
    [] OTHER -> e

\* the exhaustion test one attempt early
RetryExhaustedEarly(a, c) == a + 1 >= c.max_retries

\* if attempt >= config.max_retries
RetryExhausted(a, c) == a >= c.max_retries

\* rate_limit_retry_after: e.retry_after for a RateLimitError, else None
RetryAfterOf(e) ==
  IF IsInstance(e, {"RateLimitError"}) THEN e.retry_after ELSE {}

RetryAttempt ==
  /\ pc = "loop"
  /\ module \in {"retry", "retry_anthropic", "retry_github"}
  /\ \/ \E v \in Values : ReturnValue(v)
     \/ \E raw \in OpErrors, u \in (0 - JDen) .. JDen :
          LET r == [raw EXCEPT !.at = calls + 1]
              e == InnerRaises(module, r)
          IN  IF RetryExhausted(attempt, config)
              THEN Reraise(r, e)
              ELSE IF ~should_retry(e, catch.exceptions)
              THEN Reraise(r, e)
              ELSE IF on_retry.given
              THEN CallOnRetry(r, e, calculate_delay(attempt, config, RetryAfterOf(e), u))
              ELSE Sleep(r, e, calculate_delay(attempt, config, RetryAfterOf(e), u))

(***************************************************************************)
(* retry_handler.py: one iteration of retry_with_backoff's wrapper and of  *)
(* RetryableAPICall.execute                                                *)
(***************************************************************************)
\* if attempt == max_retries
HandlerExhausted(a, c) == a = c.max_retries

\* the rate-limit clause computing its delay as the generic clause does
RateLimitDelayAsGeneric(a, c, rnd) ==
  calculate_backoff_delay(a, c.base_delay, c.max_delay, c.multiplier,
                          c.jitter_range, rnd)

\* the delay of the except rate_limit_exceptions clause
RateLimitDelay(a, c, rnd) ==
  calculate_backoff_delay(a + 1, c.base_delay * 2, c.max_delay, c.multiplier,
                          c.jitter_range, rnd)

\* the delay of the except exceptions clause, and of execute
GenericDelay(a, c, rnd) ==
  calculate_backoff_delay(a, c.base_delay, c.max_delay, c.multiplier,
                          c.jitter_range, rnd)

\* the except clauses in the other order, except exceptions first
HandlerClauseGenericFirst(e, k) ==
  IF IsInstance(e, k.exceptions) THEN "generic"
  ELSE IF IsInstance(e, k.rate_limit_exceptions) THEN "rate_limit"
  ELSE "none"

\* the except clause that handles e: the first one, in order, that matches
HandlerClause(e, k) ==
  IF IsInstance(e, k.rate_limit_exceptions) THEN "rate_limit"
  ELSE IF IsInstance(e, k.exceptions) THEN "generic"
  ELSE "none"

HandlerAttempt ==
  /\ pc = "loop"
  /\ module = "handler"
  /\ \/ \E v \in Values : ReturnValue(v)
     \/ \E raw \in OpErrors, rnd \in (0 - JDen) .. (JDen - 1) :
          LET r == [raw EXCEPT !.at = calls + 1]
              clause == HandlerClause(r, catch)
          IN  CASE clause = "rate_limit" ->
                     IF HandlerExhausted(attempt, config)
                     THEN Reraise(r, r)
                     ELSE Sleep(r, r, RateLimitDelay(attempt, config, rnd))
                [] clause = "generic" ->
                     IF HandlerExhausted(attempt, config)
                     THEN Reraise(r, r)
                     ELSE Sleep(r, r, GenericDelay(attempt, config, rnd))
                [] OTHER -> Propagate(r)

ExecuteAttempt ==
  /\ pc = "loop"
  /\ module = "execute"
  /\ \/ \E v \in Values : ReturnValue(v)
     \/ \E raw \in OpErrors, rnd \in (0 - JDen) .. (JDen - 1) :
          LET r == [raw EXCEPT !.at = calls + 1]
          IN  IF HandlerExhausted(attempt, config)
              THEN Reraise(r, r)
              ELSE Sleep(r, r, GenericDelay(attempt, config, rnd))

Next ==
  \/ RetryDecorate
  \/ RetryAnthropicDecorate
  \/ RetryGithubDecorate
  \/ HandlerDecorate
  \/ RetryableAPICallInit
  \/ Enter
  \/ Wake
  \/ OnRetryReturns
  \/ RetryAttempt
  \/ HandlerAttempt
  \/ ExecuteAttempt

Spec == Init /\ [][Next]_vars

(***************************************************************************)
(* Executions whose calls all return.  The delay curve has no part in the  *)
(* control flow of the wrappers, so the generic policies are constructed   *)
(* with every max_retries, jitter and callback but one curve.              *)
(***************************************************************************)
\* base_delay=1.0, max_delay=1.5, exponential_base / multiplier = 2.0
OneCurve(c) ==
  /\ c.base_delay = Sec
  /\ c.max_delay = (3 * Sec) \div 2
  /\ c.multiplier = 2

\* retry.py: retry_with_backoff(config, retryable_exceptions, on_retry)
RetryDecorateOneCurve ==
  \E c \in RetryConfigs, t \in RetryableTuples, cb \in {NoCallback, Callback} :
    /\ OneCurve(c)
    /\ ConstructWith("retry", c, [exceptions |-> t, rate_limit_exceptions |-> {}], cb)

\* retry_handler.py: @retry_with_backoff(max_retries, ..., exceptions, rate_limit_exceptions)
HandlerDecorateOneCurve ==
  \E c \in HandlerPolicies, k \in HandlerCatches :
    OneCurve(c) /\ Construct("handler", c, k)

\* retry_handler.py: RetryableAPICall(max_retries, ...)
RetryableAPICallInitOneCurve ==
  \E c \in HandlerPolicies :
    /\ OneCurve(c)
    /\ Construct("execute", c, [exceptions |-> {"Exception"}, rate_limit_exceptions |-> {}])

NextLive ==
  \/ RetryDecorateOneCurve
  \/ RetryAnthropicDecorate
  \/ RetryGithubDecorate
  \/ HandlerDecorateOneCurve
  \/ RetryableAPICallInitOneCurve
  \/ Enter
  \/ Wake
  \/ OnRetryReturns
  \/ RetryAttempt
  \/ HandlerAttempt
  \/ ExecuteAttempt

\* every call the wrapper makes returns: the wrapped operation (returning or
\* raising), the on_retry callback and time.sleep
Returning ==
  /\ WF_vars(Enter)
  /\ WF_vars(RetryAttempt)
  /\ WF_vars(HandlerAttempt)
  /\ WF_vars(ExecuteAttempt)
  /\ WF_vars(OnRetryReturns)
  /\ WF_vars(Wake)

SpecLive == Init /\ [][NextLive]_vars /\ Returning

(***************************************************************************)
(* Vocabulary of the claims, stated apart from the operators above         *)
(***************************************************************************)
RetryFamily == {"retry", "retry_anthropic", "retry_github"}

HandlerFamily == {"handler", "execute"}

\* the exception the retry loop saw on the latest invocation: for the API
\* decorators of retry.py, the one inner() raised
Seen == IF module \in RetryFamily THEN InnerRaises(module, op.exc) ELSE op.exc

OpFailed == op.exc # NoExc

\* the failure kinds of the specification, per wrapper
Fatal(e) ==
  CASE module \in RetryFamily ->
         /\ \A c \in catch.exceptions : ~IsSubclass(e.type, c)
         /\ \A m \in e.markers : m \notin TransientIndicators
    [] module = "handler" ->
         \A c \in catch.exceptions \cup catch.rate_limit_exceptions :
            ~IsSubclass(e.type, c)
    [] OTHER -> FALSE

\* a RetryPolicy of the specification: maxAttempts >= 0, baseDelay > 0,
\* maxDelay >= baseDelay, backoffMultiplier > 1, jitterFraction in [0,1]
WellConfigured(c) ==
  /\ c.max_retries >= 0
  /\ c.base_delay > 0
  /\ c.max_delay >= c.base_delay
  /\ c.multiplier > 1
  /\ c.jitter_range \in 0 .. JDen

\* min(base_delay * multiplier^i, max_delay)
Curve(base_delay, multiplier, max_delay, i) ==
  Min(base_delay * Pow(multiplier, i), max_delay)

(***************************************************************************)
(* C1: for max_retries >= 0, an execution that ends by raising a retryable *)
(* error has invoked the operation exactly max_retries + 1 times and slept *)
(* exactly max_retries times, and raises the exception of the final        *)
(* invocation; as long as it sleeps it has attempts left, so no sleep      *)
(* follows the final attempt.                                              *)
(***************************************************************************)
C1_ExhaustionCount ==
  /\ ( /\ pc = "raised"
       /\ config.max_retries >= 0
       /\ OpFailed
       /\ ~Fatal(Seen) )
     => /\ calls = config.max_retries + 1
        /\ sleeps = config.max_retries
        /\ op.exc.at = calls
        /\ result = Raised(Seen)
  /\ pc = "sleeping" => sleeps = calls /\ calls <= config.max_retries

C1_Witness ==
  /\ pc = "raised"
  /\ module = "handler"
  /\ config.max_retries >= 2
  /\ ~Fatal(Seen)
  /\ calls = config.max_retries + 1
  /\ sleeps = config.max_retries

(***************************************************************************)
(* C2: when an invocation of the operation succeeds, the wrapper returns   *)
(* that value unchanged, at once: with k failed invocations before it      *)
(* there were exactly k + 1 invocations and k sleeps (none for k = 0).     *)
(***************************************************************************)
C2_SuccessReturns ==
  op.value \in Values
    => /\ pc = "returned"
       /\ result = Returned(op.value)
       /\ sleeps = calls - 1
       /\ calls <= config.max_retries + 1

C2_Witness ==
  /\ pc = "returned"
  /\ module = "execute"
  /\ op.value = "v2"
  /\ result.value = "v2"
  /\ calls = 3
  /\ sleeps = 2

(***************************************************************************)
(* C3: a Fatal failure propagates on the attempt where it occurs: the      *)
(* execution has ended raising that exception, no sleep followed the       *)
(* failing invocation and no invocation came after it.                     *)
(***************************************************************************)
C3_FatalPropagates ==
  (OpFailed /\ Fatal(Seen))
    => /\ pc = "raised"
       /\ result = Raised(Seen)
       /\ op.exc.at = calls
       /\ sleeps = calls - 1

C3_Witness ==
  /\ pc = "raised"
  /\ module = "retry"
  /\ OpFailed
  /\ Fatal(Seen)
  /\ attempt >= 1
  /\ attempt < config.max_retries

(***************************************************************************)
(* C4: in retry.py a RateLimitError that carries retry_after = h is        *)
(* followed by a sleep of exactly min(h, max_delay), whatever the attempt  *)
(* index, the base delay, the exponential base and the jitter.             *)
(***************************************************************************)
C4_HintDelay ==
  ( /\ pc = "sleeping"
    /\ module \in RetryFamily
    /\ last_exception.type = "RateLimitError" )
    => \A h \in last_exception.retry_after :
         delay = Min(h * Sec, config.max_delay)

C4_Witness ==
  /\ pc = "sleeping"
  /\ module = "retry"
  /\ attempt = 1
  /\ config.jitter
  /\ config.multiplier = 2
  /\ last_exception.retry_after = {1}
  /\ delay = Sec
  /\ config.max_delay > Sec

(***************************************************************************)
(* C5: with jitter disabled the delay of attempt index i is                *)
(* min(base_delay * multiplier^i, max_delay), in calculate_delay and in    *)
(* calculate_backoff_delay and whatever the random draw; for               *)
(* base_delay > 0 and multiplier > 1 it does not decrease with i and       *)
(* never exceeds max_delay.  A sleep of the generic path lasts that long.  *)
(***************************************************************************)
C5_Delay(i, rnd) ==
  IF module \in RetryFamily
  THEN calculate_delay(i, config, {}, rnd)
  ELSE calculate_backoff_delay(i, config.base_delay, config.max_delay,
                               config.multiplier, config.jitter_range, rnd)

C5_JitterOff ==
  IF module \in RetryFamily THEN ~config.jitter ELSE config.jitter_range = 0

C5_NoJitterCurve ==
  (pc # "new" /\ C5_JitterOff)
    => /\ \A i \in 0 .. (config.max_retries + 1), rnd \in (0 - JDen) .. JDen :
            /\ C5_Delay(i, rnd)
                 = Curve(config.base_delay, config.multiplier, config.max_delay, i)
            /\ (config.base_delay > 0 /\ config.multiplier > 1)
                 => /\ C5_Delay(i, rnd) <= C5_Delay(i + 1, rnd)
                    /\ C5_Delay(i, rnd) <= config.max_delay
       /\ ( /\ pc = "sleeping"
            /\ last_exception.retry_after = {}
            /\ ~IsInstance(last_exception, catch.rate_limit_exceptions) )
          => delay = Curve(config.base_delay, config.multiplier,
                           config.max_delay, attempt)

\* a sleep at index 1 that the cap shortened, under a well-formed policy
C5_Witness ==
  /\ pc = "sleeping"
  /\ module = "handler"
  /\ config.jitter_range = 0
  /\ config.multiplier = 2
  /\ attempt = 1
  /\ config.base_delay < config.max_delay
  /\ config.base_delay * 2 > config.max_delay
  /\ delay = config.max_delay

(***************************************************************************)
(* C6: with jitter fraction j and capped pre-jitter delay d, every delay   *)
(* slept lies in [d(1-j), d(1+j)].                                         *)
(* As claimed (C6_JitterBand): in retry_handler.py with j = jitter_range,  *)
(* in retry.py with j = 0.25.                                              *)
(* As amended (C6_JitterBandFloored): in retry.py the band is floored at   *)
(* 0.1 s, [max(0.1, 0.75 d), max(0.1, 1.25 d)].                            *)
(* The claim's retry.py half is stated for the well-formed policies alone: *)
(* its violation owes nothing to a misconfiguration.                       *)
(***************************************************************************)
\* the capped pre-jitter delay of the sleep in progress
C6_PreJitter ==
  IF module = "handler" /\ IsInstance(last_exception, catch.rate_limit_exceptions)
  THEN Curve(2 * config.base_delay, config.multiplier, config.max_delay, attempt + 1)
  ELSE Curve(config.base_delay, config.multiplier, config.max_delay, attempt)

\* a sleep whose delay came from the jittered curve
C6_Jittered ==
  /\ pc = "sleeping"
  /\ module \in RetryFamily => config.jitter /\ RetryAfterOf(last_exception) = {}

C6_HandlerBand ==
  (C6_Jittered /\ module \in HandlerFamily)
    => /\ delay * JDen >= C6_PreJitter * (JDen - config.jitter_range)
       /\ delay * JDen <= C6_PreJitter * (JDen + config.jitter_range)

C6_JitterBand ==
  /\ C6_HandlerBand
  /\ (C6_Jittered /\ module \in RetryFamily /\ WellConfigured(config))
       => /\ delay * Quarter >= C6_PreJitter * (Quarter - 1)
          /\ delay * Quarter <= C6_PreJitter * (Quarter + 1)

C6_JitterBandFloored ==
  /\ C6_HandlerBand
  /\ (C6_Jittered /\ module \in RetryFamily)
       => /\ delay * Quarter * Tenth
               >= Max(Quarter * Sec, C6_PreJitter * (Quarter - 1) * Tenth)
          /\ delay * Quarter * Tenth
               <= Max(Quarter * Sec, C6_PreJitter * (Quarter + 1) * Tenth)

\* a handler sleep at the low end of the band, a quarter below d
C6_Witness ==
  /\ pc = "sleeping"
  /\ module = "handler"
  /\ config.jitter_range = 1
  /\ C6_PreJitter = Sec
  /\ delay < Sec

(***************************************************************************)
(* C7: every delay passed to sleep is strictly positive, for every policy  *)
(* with base_delay > 0 and a jitter fraction in [0,1] and for every        *)
(* failure kind.  Stated for the well-formed policies alone: a violation  *)
(* owes nothing to a misconfiguration.                                     *)
(***************************************************************************)
C7_PositiveDelay ==
  (pc = "sleeping" /\ WellConfigured(config)) => delay > 0

(***************************************************************************)
(* C8: in retry_handler.py retry_with_backoff with jitter_range 0, the     *)
(* sleep after a rate-limit exception lasts                                *)
(* min(2 * base_delay * multiplier^(attempt+1), max_delay), which is at    *)
(* least the delay of a generic exception at the same attempt index.       *)
(***************************************************************************)
C8_RateLimitLonger ==
  ( /\ pc = "sleeping"
    /\ module = "handler"
    /\ config.jitter_range = 0
    /\ IsInstance(last_exception, catch.rate_limit_exceptions) )
    => /\ delay = Curve(2 * config.base_delay, config.multiplier,
                        config.max_delay, attempt + 1)
       /\ delay >= Curve(config.base_delay, config.multiplier,
                         config.max_delay, attempt)

\* a rate-limit sleep strictly longer than the generic one would be
C8_Witness ==
  /\ pc = "sleeping"
  /\ module = "handler"
  /\ config.jitter_range = 0
  /\ IsInstance(last_exception, catch.rate_limit_exceptions)
  /\ attempt = 1
  /\ delay > Curve(config.base_delay, config.multiplier, config.max_delay, attempt)

(***************************************************************************)
(* C9: with retry_anthropic_api and retry_github_api of retry.py, the      *)
(* exception that reaches the caller is                                    *)
(* as claimed (C9_Verbatim): the very exception the wrapped function       *)
(* raised on its last attempt;                                             *)
(* as amended (C9_Classified): that exception when its message holds no    *)
(* marker of the decorator's classifier, and otherwise a new               *)
(* RateLimitError or NetworkError raised from it on the same attempt.      *)
(***************************************************************************)
C9_Markers ==
  IF module = "retry_anthropic"
  THEN {"rate limit", "429", "too many requests",
        "connection", "timeout", "network", "503", "502"}
  ELSE {"rate limit", "403", "abuse",
        "connection", "timeout", "network", "503", "502", "500"}

C9_Ended ==
  /\ pc = "raised"
  /\ module \in {"retry_anthropic", "retry_github"}

C10_MisconfigurationRejected == pc # "new" => WellConfigured(config)

(***************************************************************************)
(* Cancellation.  Every wrapper calls time.sleep from the body of an       *)
(* except clause, outside any try block of its own: what time.sleep raises *)
(* while the execution is suspended leaves the wrapper.                    *)
(***************************************************************************)
\* what may be raised out of time.sleep: a BaseException and an Exception
Interrupts == {"KeyboardInterrupt", "InterruptedError"}

\* the sleep placed inside the try block: the except clause binds x and the
\* loop goes on
SleepRaisesCaught(x) ==
  /\ pc' = "loop"
  /\ attempt' = attempt + 1
  /\ last_exception' = x
  /\ delay' = 0
  /\ UNCHANGED <<module, config, catch, calls, sleeps, op, result, on_retry>>
  /\ UNCHANGED elsewhere

\* time.sleep(delay) raises x: no clause of the enclosing try statement
\* applies to its own handlers, so x leaves the wrapper
SleepRaises(x) ==
  /\ pc' = "raised"
  /\ result' = Raised(x)
  /\ UNCHANGED <<module, config, catch, attempt, last_exception, delay, calls,
                 sleeps, op, on_retry>>
  /\ UNCHANGED elsewhere

Interrupt ==
  /\ pc = "sleeping"
  /\ \E t \in Interrupts :
       SleepRaises([type |-> t, markers |-> {}, retry_after |-> {},
                    data |-> {}, at |-> calls, by |-> "sleep"])

NextCancel ==
  \/ Next
  \/ Interrupt

SpecCancel == Init /\ [][NextCancel]_vars

(***************************************************************************)
(* C11: once an interrupt has been raised out of the sleep of a suspended  *)
(* execution, the execution has ended raising that very interrupt: the     *)
(* operation was not invoked again and no sleep was started after it, and  *)
(* the wrapper never held the interrupt as the error to retry.             *)
(***************************************************************************)
C11_CancelPropagates ==
  (last_exception.by = "sleep" \/ result.exc.by = "sleep")
    => /\ pc = "raised"
       /\ last_exception.by # "sleep"
       /\ result.kind = "raised"
       /\ result.exc.type \in Interrupts
       /\ calls = result.exc.at
       /\ sleeps = calls
       /\ calls <= config.max_retries

\* a handler execution cancelled during its second sleep
C11_Witness ==
  /\ pc = "raised"
  /\ module = "handler"
  /\ result.exc.by = "sleep"
  /\ result.exc.type = "InterruptedError"
  /\ calls = 2
  /\ sleeps = 2

(***************************************************************************)
(* Concurrent executions.  Two threads call the same decorated function:   *)
(* they share the policy the decorator was given (GITHUB_RETRY_CONFIG of   *)
(* retry.py, the closure arguments of retry_handler.py), which no wrapper  *)
(* writes, and each call of the wrapper has its own attempt,               *)
(* last_exception and delay.  history records, per thread, what the        *)
(* operation did on that thread's invocations.                             *)
(***************************************************************************)
Threads == {"t1", "t2"}

\* the decorated functions the threads share
ConcShared ==
  { [ module |-> "retry_github", config |-> GITHUB_RETRY_CONFIG,
      catch |-> [exceptions |-> ApiRetryable, rate_limit_exceptions |-> {}] ],
    [ module |-> "handler",
      config |-> [ max_retries |-> MaxRetries, base_delay |-> Sec,
                   max_delay |-> (3 * Sec) \div 2, multiplier |-> 2,
                   jitter |-> FALSE, jitter_range |-> 1 ],
      catch |-> [ exceptions |-> {"ConnectionError"},
                  rate_limit_exceptions |-> {"RateLimitError"} ] ] }

\* what the operation may do on one invocation
ConcOutcomes ==
  { [value |-> "v1", exc |-> NoExc],
    [value |-> "None", exc |-> Err("ValueError", {}, {}, {})],
    [value |-> "None", exc |-> Err("ConnectionError", {"connection"}, {}, {})],
    [value |-> "None", exc |-> Err("RateLimitError", {"rate limit"}, {1}, {})] }

\* the locals of a wrapper call that has not started its loop
Frame0 ==
  [ pc |-> "ready", attempt |-> 0, last_exception |-> NoExc, delay |-> 0,
    calls |-> 0, sleeps |-> 0, result |-> NoResult ]

\* the attempt index kept in one place for all executions
AttemptOfShared(ws, p) ==
  CHOOSE a \in {ws[q].attempt : q \in Threads} :
    \A q \in Threads : ws[q].attempt <= a

\* for attempt in range(...): the loop variable is a local of the call
AttemptOf(ws, p) == ws[p].attempt

\* the first iteration, or the statements after an empty loop
EnterFrame(m, c, f) ==
  IF InRange(0, c.max_retries)
  THEN [f EXCEPT !.pc = "loop"]
  ELSE LET r == AfterLoop(m, NoExc)
       IN  [f EXCEPT !.pc = r.kind, !.result = r]

\* one iteration of the wrapper of module m on the locals f, with attempt
\* index a: the operation does o, the jitter draw is u
WrapperStep(m, c, k, a, f, o, u) ==
  IF o.exc = NoExc
  THEN [f EXCEPT !.pc = "returned", !.calls = @ + 1, !.result = Returned(o.value)]
  ELSE LET r == [o.exc EXCEPT !.at = f.calls + 1]
           e == InnerRaises(m, r)
           clause == HandlerClause(r, k)
           raise(x) == [f EXCEPT !.pc = "raised", !.calls = @ + 1,
                                 !.last_exception = x, !.result = Raised(x)]
           sleep(x, d) == [f EXCEPT !.pc = "sleeping", !.calls = @ + 1,
                                    !.sleeps = @ + 1, !.last_exception = x,
                                    !.delay = d]
       IN  IF m \in {"retry", "retry_anthropic", "retry_github"}
           THEN IF RetryExhausted(a, c) \/ ~should_retry(e, k.exceptions)
                THEN raise(e)
                ELSE sleep(e, calculate_delay(a, c, RetryAfterOf(e), u))
           ELSE CASE clause = "rate_limit" ->
                       IF HandlerExhausted(a, c)
                       THEN raise(r)
                       ELSE sleep(r, RateLimitDelay(a, c, u))
                  [] clause = "generic" ->
                       IF HandlerExhausted(a, c)
                       THEN raise(r)
                       ELSE sleep(r, GenericDelay(a, c, u))
                  [] OTHER ->
                       [f EXCEPT !.pc = "raised", !.calls = @ + 1,
                                 !.result = Raised(r)]

\* time.sleep returns: the next iteration, or the statements after the loop
WakeFrame(m, c, f) ==
  IF InRange(f.attempt + 1, c.max_retries)
  THEN [f EXCEPT !.pc = "loop", !.attempt = @ + 1, !.delay = 0]
  ELSE LET r == AfterLoop(m, f.last_exception)
       IN  [f EXCEPT !.pc = r.kind, !.attempt = @ + 1, !.delay = 0,
                     !.result = r]

\* the function is decorated, and the threads are about to call it
ConcDecorate ==
  /\ pc = "new"
  /\ \E s \in ConcShared :
       /\ module' = s.module
       /\ config' = s.config
       /\ catch' = s.catch
  /\ pc' = "ready"
  /\ workers' = [p \in Threads |-> Frame0]
  /\ history' = [p \in Threads |-> <<>>]
  /\ UNCHANGED <<attempt, last_exception, delay, calls, sleeps, op, result,
                 on_retry, call>>

ConcEnter(p) ==
  /\ workers # NoWorkers
  /\ workers[p].pc = "ready"
  /\ workers' = [workers EXCEPT ![p] = EnterFrame(module, config, @)]
  /\ UNCHANGED <<execution, history, call>>

ConcInvoke(p) ==
  /\ workers # NoWorkers
  /\ workers[p].pc = "loop"
  /\ \E o \in ConcOutcomes, u \in (0 - JDen) .. JDen :
       /\ module = "handler" => u < JDen
       /\ workers' = [workers EXCEPT ![p] =
                        WrapperStep(module, config, catch,
                                    AttemptOf(workers, p), @, o, u)]
       /\ history' = [history EXCEPT ![p] = Append(@, o)]
  /\ UNCHANGED <<execution, call>>

ConcWake(p) ==
  /\ workers # NoWorkers
  /\ workers[p].pc = "sleeping"
  /\ workers' = [workers EXCEPT ![p] = WakeFrame(module, config, @)]
  /\ UNCHANGED <<execution, history, call>>

NextConc ==
  \/ ConcDecorate
  \/ \E p \in Threads : ConcEnter(p)
  \/ \E p \in Threads : ConcInvoke(p)
  \/ \E p \in Threads : ConcWake(p)

SpecConc == Init /\ [][NextConc]_vars

\* the locals of an execution that runs alone and whose operation does h,
\* invocation by invocation; it is left asleep after a failure it retries
RECURSIVE Alone(_, _, _, _)
Alone(m, c, k, h) ==
  IF h = <<>>
  THEN EnterFrame(m, c, Frame0)
  ELSE LET before == Alone(m, c, k, SubSeq(h, 1, Len(h) - 1))
           f == IF before.pc = "sleeping" THEN WakeFrame(m, c, before) ELSE before
       IN  [WrapperStep(m, c, k, f.attempt, f, h[Len(h)], 0) EXCEPT !.delay = 0]

\* d is a sleep the policy allows at attempt index i after the failure e
OwnDelay(m, c, k, i, e, d) ==
  IF m \in RetryFamily
  THEN IF IsInstance(e, {"RateLimitError"}) /\ e.retry_after # {}
       THEN d = Min((CHOOSE x \in e.retry_after : TRUE) * Sec, c.max_delay)
       ELSE LET pre == Curve(c.base_delay, c.multiplier, c.max_delay, i)
            IN  Quarter * d >= 3 * pre /\ Quarter * d <= 5 * pre
  ELSE LET pre == IF IsInstance(e, k.rate_limit_exceptions)
                  THEN Curve(2 * c.base_delay, c.multiplier, c.max_delay, i + 1)
                  ELSE Curve(c.base_delay, c.multiplier, c.max_delay, i)
       IN  /\ JDen * d >= (JDen - c.jitter_range) * pre
           /\ JDen * d <= (JDen + c.jitter_range) * pre

(***************************************************************************)
(* C12: under every interleaving of two executions of one decorated        *)
(* function, each execution has invoked the operation once per outcome of  *)
(* its own history, its locals and its outcome are those of an execution   *)
(* that runs alone on that history, and the delay it sleeps is one the     *)
(* policy allows at its own attempt index.                                 *)
(***************************************************************************)
C12_Isolated ==
  workers # NoWorkers
    => \A p \in Threads :
         LET w == workers[p]
             h == history[p]
             alone == Alone(module, config, catch, h)
         IN  /\ w.calls = Len(h)
             /\ \/ w.pc = "ready" /\ h = <<>>
                \/ [w EXCEPT !.delay = 0] = alone
                \/ /\ alone.pc = "sleeping"
                   /\ w = WakeFrame(module, config, alone)
             /\ w.pc = "sleeping"
                  => OwnDelay(module, config, catch, Len(h) - 1,
                              w.last_exception, w.delay)

\* one thread asleep before its last attempt while the other, which started
\* later, is asleep after its first
C12_Witness ==
  /\ workers # NoWorkers
  /\ module = "retry_github"
  /\ workers["t1"].pc = "sleeping"
  /\ workers["t1"].attempt = 2
  /\ workers["t2"].pc = "sleeping"
  /\ workers["t2"].attempt = 0
  /\ workers["t1"].delay # workers["t2"].delay

(***************************************************************************)
(* deduplication.py.  A text is a sequence of one-character strings; an    *)
(* argument that may be None is {} for None and {s} for the str s.         *)
(* Similarity scores are exact rationals, kept as integer multiples of     *)
(* 1/Unit; thresholds are numbers of hundredths and weights of tenths.     *)
(***************************************************************************)
\* the texts the text methods are called with have at most MaxLen characters
MaxLen == 3

\* the characters they are made of: letters in both cases and the space, and
\* with them a punctuation mark
Letters == {"a", "A", "b", " "}

Alphabet == Letters \cup {"!"}

None == {}

Str(s) == {s}

\* the str an argument that is not None holds
StrOf(text) == CHOOSE s \in text : TRUE

Strings(chars, n) == UNION {[1 .. k -> chars] : k \in 0 .. n}

\* the arguments of the methods that take texts: None and the strings of at
\* most MaxLen characters, of fewer when a punctuation mark is among them
Texts ==
  {None} \cup {Str(s) : s \in Strings(Letters, MaxLen) \cup Strings(Alphabet, MaxLen - 1)}

\* bool(text): None and "" are false
Truthy(text) == text # None /\ text # Str(<<>>)

\* str.lower() on one character
lower(ch) ==
  CASE ch = "A" -> "a"
    [] ch = "B" -> "b"
    [] OTHER -> ch

\* the characters \w matches
WordChars == {"a", "b", "A", "B", "0", "_"}

\* the characters \s matches
SpaceChars == {" ", "\t", "\n"}

\* the elements of s at the indices in keep, in order
Pick(s, keep) ==
  LET RECURSIVE From(_)
      From(i) ==
        IF i > Len(s) THEN <<>>
        ELSE IF i \in keep THEN <<s[i]>> \o From(i + 1)
        ELSE From(i + 1)
  IN  From(1)

\* re.sub(r'\s+', ' ', s): every run of whitespace becomes one space
CollapseSpaces(s) ==
  LET first(i) == s[i] \notin SpaceChars \/ i = 1 \/ s[i - 1] \notin SpaceChars
      kept == Pick(s, {i \in DOMAIN s : first(i)})
  IN  [i \in 1 .. Len(kept) |-> IF kept[i] \in SpaceChars THEN " " ELSE kept[i]]

\* str.strip()
strip(s) ==
  LET inked == {i \in 1 .. Len(s) : s[i] \notin SpaceChars}
  IN  IF inked = {} THEN <<>>
      ELSE SubSeq(s, CHOOSE i \in inked : \A j \in inked : i <= j,
                     CHOOSE i \in inked : \A j \in inked : i >= j)

\* normalize_text that leaves the case of the letters alone
normalize_textNoLower(text) ==
  IF ~Truthy(text) THEN <<>>
  ELSE LET s == StrOf(text)
           spaced == [i \in 1 .. Len(s) |->
                        IF s[i] \in WordChars \cup SpaceChars THEN s[i] ELSE " "]
       IN  strip(CollapseSpaces(spaced))

\* normalize_text(text)
normalize_text(text) ==
  IF ~Truthy(text) THEN <<>>
  ELSE LET s == StrOf(text)
           lowered == [i \in 1 .. Len(s) |-> lower(s[i])]
           spaced == [i \in 1 .. Len(s) |->
                        IF lowered[i] \in WordChars \cup SpaceChars
                        THEN lowered[i] ELSE " "]
       IN  strip(CollapseSpaces(spaced))

RECURSIVE Gcd(_, _)
Gcd(a, b) == IF b = 0 THEN a ELSE Gcd(b, a % b)

RECURSIVE LcmUpTo(_)
LcmUpTo(n) == IF n <= 1 THEN 1 ELSE (n * LcmUpTo(n - 1)) \div Gcd(n, LcmUpTo(n - 1))

\* a score of 1.0: every quotient the methods form has a denominator of at
\* most 2 * MaxLen, and thresholds and weights are hundredths
Unit == 100 * LcmUpTo(2 * MaxLen)

\* SequenceMatcher.find_longest_match(alo, ahi, blo, bhi) without junk: the
\* longest block a[i:i+k] == b[j:j+k] inside the two ranges; of the longest
\* the one that starts earliest in a, and of those the earliest in b
find_longest_match(a, b, alo, ahi, blo, bhi) ==
  LET blocks ==
        { m \in (alo .. ahi - 1) \X (blo .. bhi - 1) \X (1 .. ahi - alo) :
            /\ m[1] + m[3] <= ahi
            /\ m[2] + m[3] <= bhi
            /\ \A d \in 0 .. m[3] - 1 : a[m[1] + d + 1] = b[m[2] + d + 1] }
  IN  IF blocks = {} THEN <<alo, blo, 0>>
      ELSE CHOOSE m \in blocks :
             \A o \in blocks :
               \/ m[3] > o[3]
               \/ m[3] = o[3] /\ m[1] < o[1]
               \/ m[3] = o[3] /\ m[1] = o[1] /\ m[2] <= o[2]

\* SequenceMatcher.get_matching_blocks(): the total size of the blocks, the
\* longest match first and then the pieces to its left and to its right
RECURSIVE matches(_, _, _, _, _, _)
matches(a, b, alo, ahi, blo, bhi) ==
  LET m == find_longest_match(a, b, alo, ahi, blo, bhi)
      i == m[1]
      j == m[2]
      k == m[3]
  IN  IF k = 0 THEN 0
      ELSE k + (IF alo < i /\ blo < j THEN matches(a, b, alo, i, blo, j) ELSE 0)
             + (IF i + k < ahi /\ j + k < bhi
                THEN matches(a, b, i + k, ahi, j + k, bhi) ELSE 0)

\* ratio() without the factor 2.0
ratioNoDouble(a, b) ==
  IF Len(a) + Len(b) = 0 THEN Unit
  ELSE (matches(a, b, 0, Len(a), 0, Len(b)) * Unit) \div (Len(a) + Len(b))

\* SequenceMatcher(None, a, b).ratio(): 2.0 * matches / length, and 1.0 for
\* two empty sequences
ratio(a, b) ==
  IF Len(a) + Len(b) = 0 THEN Unit
  ELSE (2 * matches(a, b, 0, Len(a), 0, Len(b)) * Unit) \div (Len(a) + Len(b))

\* calculate_sequence_similarity without the test for a missing text
calculate_sequence_similarityUnguarded(text1, text2) ==
  ratio(normalize_text(text1), normalize_text(text2))

\* calculate_sequence_similarity(text1, text2)
calculate_sequence_similarity(text1, text2) ==
  IF ~Truthy(text1) \/ ~Truthy(text2) THEN 0
  ELSE ratio(normalize_text(text1), normalize_text(text2))

\* set(s.split()): the maximal runs of non-whitespace characters
split(s) ==
  { SubSeq(s, p[1], p[2]) :
      p \in { q \in (1 .. Len(s)) \X (1 .. Len(s)) :
                /\ q[1] <= q[2]
                /\ \A i \in q[1] .. q[2] : s[i] \notin SpaceChars
                /\ q[1] = 1 \/ s[q[1] - 1] \in SpaceChars
                /\ q[2] = Len(s) \/ s[q[2] + 1] \in SpaceChars } }

\* calculate_jaccard_similarity(text1, text2)
calculate_jaccard_similarity(text1, text2) ==
  IF ~Truthy(text1) \/ ~Truthy(text2) THEN 0
  ELSE LET words1 == split(normalize_text(text1))
           words2 == split(normalize_text(text2))
           intersection == Cardinality(words1 \cap words2)
           union == Cardinality(words1 \cup words2)
       IN  IF words1 = {} \/ words2 = {} THEN 0
           ELSE IF union > 0 THEN (intersection * Unit) \div union ELSE 0

\* checker.normalize_text(text)
NormalizeText ==
  /\ call = NoCall
  /\ \E text \in Texts :
       call' = [fn |-> "normalize_text", text |-> text, out |-> normalize_text(text)]
  /\ UNCHANGED <<execution, workers, history>>

\* checker.calculate_sequence_similarity(text1, text2)
SequenceSimilarity ==
  /\ call = NoCall
  /\ \E text1 \in Texts, text2 \in Texts :
       call' = [fn |-> "calculate_sequence_similarity", text1 |-> text1,
                text2 |-> text2,
                out |-> calculate_sequence_similarity(text1, text2)]
  /\ UNCHANGED <<execution, workers, history>>

\* checker.calculate_jaccard_similarity(text1, text2)
JaccardSimilarity ==
  /\ call = NoCall
  /\ \E text1 \in Texts, text2 \in Texts :
       call' = [fn |-> "calculate_jaccard_similarity", text1 |-> text1,
                text2 |-> text2,
                out |-> calculate_jaccard_similarity(text1, text2)]
  /\ UNCHANGED <<execution, workers, history>>

\* the share of the title (and of the body) in the combined score, in tenths
TitleWeight == 7

BodyWeight == 3

\* calculate_combined_similarity with min in place of max
calculate_combined_similarityMin(title1, body1, title2, body2) ==
  LET title_seq_sim == calculate_sequence_similarity(title1, title2)
      title_jaccard_sim == calculate_jaccard_similarity(title1, title2)
      title_similarity == Min(title_seq_sim, title_jaccard_sim)
      body_seq_sim == calculate_sequence_similarity(body1, body2)
      body_jaccard_sim == calculate_jaccard_similarity(body1, body2)
      body_similarity == Min(body_seq_sim, body_jaccard_sim)
      combined_score ==
        (title_similarity * TitleWeight + body_similarity * BodyWeight) \div 10
  IN  [ title_similarity |-> title_similarity,
        body_similarity |-> body_similarity,
        combined_similarity |-> combined_score,
        title_sequence |-> title_seq_sim,
        title_jaccard |-> title_jaccard_sim,
        body_sequence |-> body_seq_sim,
        body_jaccard |-> body_jaccard_sim ]

\* the scores calculate_combined_similarity forms of the four measures
Combined(title_seq_sim, title_jaccard_sim, body_seq_sim, body_jaccard_sim) ==
  LET title_similarity == Max(title_seq_sim, title_jaccard_sim)
      body_similarity == Max(body_seq_sim, body_jaccard_sim)
      combined_score ==
        (title_similarity * TitleWeight + body_similarity * BodyWeight) \div 10
  IN  [ title_similarity |-> title_similarity,
        body_similarity |-> body_similarity,
        combined_similarity |-> combined_score,
        title_sequence |-> title_seq_sim,
        title_jaccard |-> title_jaccard_sim,
        body_sequence |-> body_seq_sim,
        body_jaccard |-> body_jaccard_sim ]

\* calculate_combined_similarity(title1, body1, title2, body2)
calculate_combined_similarity(title1, body1, title2, body2) ==
  Combined(calculate_sequence_similarity(title1, title2),
           calculate_jaccard_similarity(title1, title2),
           calculate_sequence_similarity(body1, body2),
           calculate_jaccard_similarity(body1, body2))

\* score >= threshold, the threshold a number of hundredths
AtLeast(score, threshold) == score * 100 >= threshold * Unit

\* is_duplicate that also flags a body similarity at its threshold
is_duplicateWithBody(self, new_title, new_body, existing_title, existing_body) ==
  LET scores == calculate_combined_similarity(new_title, new_body,
                                              existing_title, existing_body)
      is_dup == \/ AtLeast(scores.title_similarity, self.title_threshold)
                \/ AtLeast(scores.body_similarity, self.body_threshold)
                \/ AtLeast(scores.combined_similarity, self.combined_threshold)
  IN  [is_dup |-> is_dup, scores |-> scores]

\* the decision of is_duplicate on the scores, returned with them
Decided(self, scores) ==
  LET is_dup == \/ AtLeast(scores.title_similarity, self.title_threshold)
                \/ AtLeast(scores.combined_similarity, self.combined_threshold)
  IN  [is_dup |-> is_dup, scores |-> scores]

\* is_duplicate(new_title, new_body, existing_title, existing_body)
is_duplicate(self, new_title, new_body, existing_title, existing_body) ==
  Decided(self, calculate_combined_similarity(new_title, new_body,
                                              existing_title, existing_body))

\* x or '': x when it is truthy
OrEmpty(text) == IF Truthy(text) THEN text ELSE Str(<<>>)

\* getattr(o, name, default): the attribute when the object has it
getattr(o, name, default) == IF name \in DOMAIN o THEN o[name] ELSE default

\* d.get(key, default): the value when the dict has the key
get(d, key, default) == IF key \in DOMAIN d THEN d[key] ELSE default

\* list.sort(key=..., reverse=True) that puts equal keys in reverse order
RECURSIVE SortDescUnstable(_)
SortDescUnstable(duplicates) ==
  IF duplicates = <<>> THEN <<>>
  ELSE LET x == duplicates[Len(duplicates)]
           rest == SortDescUnstable(SubSeq(duplicates, 1, Len(duplicates) - 1))
           above == Pick(rest, {i \in DOMAIN rest :
                      rest[i].scores.combined_similarity > x.scores.combined_similarity})
           below == Pick(rest, {i \in DOMAIN rest :
                      rest[i].scores.combined_similarity <= x.scores.combined_similarity})
       IN  above \o <<x>> \o below

\* duplicates.sort(key=lambda x: x[1]["combined_similarity"], reverse=True):
\* by decreasing key, equal keys in their order in the list
RECURSIVE SortDesc(_)
SortDesc(duplicates) ==
  IF duplicates = <<>> THEN <<>>
  ELSE LET x == duplicates[Len(duplicates)]
           rest == SortDesc(SubSeq(duplicates, 1, Len(duplicates) - 1))
           above == Pick(rest, {i \in DOMAIN rest :
                      rest[i].scores.combined_similarity >= x.scores.combined_similarity})
           below == Pick(rest, {i \in DOMAIN rest :
                      rest[i].scores.combined_similarity < x.scores.combined_similarity})
       IN  above \o <<x>> \o below

\* if is_dup: duplicates.append((existing_issue, scores)), ahead of the
\* tuples of the issues that follow
Appended(existing_issue, r, rest) ==
  IF r.is_dup
  THEN <<[issue |-> existing_issue, scores |-> r.scores]>> \o rest
  ELSE rest

\* the loop of find_duplicates: the tuples (existing_issue, scores) of the
\* issues is_duplicate flags, in the order of existing_issues
RECURSIVE Flagged(_, _, _, _)
Flagged(self, new_title, new_body, existing_issues) ==
  IF existing_issues = <<>> THEN <<>>
  ELSE Appended(Head(existing_issues),
                is_duplicate(self, new_title, new_body,
                             getattr(Head(existing_issues), "title", Str(<<>>)),
                             OrEmpty(getattr(Head(existing_issues), "body",
                                             Str(<<>>)))),
                Flagged(self, new_title, new_body, Tail(existing_issues)))

\* find_duplicates that returns the flagged issues unsorted
find_duplicatesUnsorted(self, new_title, new_body, existing_issues) ==
  Flagged(self, new_title, new_body, existing_issues)

\* find_duplicates(new_title, new_body, existing_issues)
find_duplicates(self, new_title, new_body, existing_issues) ==
  SortDesc(Flagged(self, new_title, new_body, existing_issues))

\* check_issue_list that records the last match of find_duplicates
RECURSIVE check_issue_listLastMatch(_, _, _)
check_issue_listLastMatch(self, new_issues, existing_issues) ==
  IF new_issues = <<>>
  THEN [non_duplicates |-> <<>>, duplicates_found |-> <<>>]
  ELSE LET new_issue == Head(new_issues)
           duplicate_matches == find_duplicates(self,
                                                get(new_issue, "title", Str(<<>>)),
                                                get(new_issue, "body", Str(<<>>)),
                                                existing_issues)
           rest == check_issue_listLastMatch(self, Tail(new_issues), existing_issues)
       IN  IF duplicate_matches # <<>>
           THEN [rest EXCEPT !.duplicates_found =
                   <<[new_issue |-> new_issue,
                      best_match |-> duplicate_matches[Len(duplicate_matches)].issue,
                      best_scores |-> duplicate_matches[Len(duplicate_matches)].scores]>>
                   \o @]
           ELSE [rest EXCEPT !.non_duplicates = <<new_issue>> \o @]

\* the body of the loop of check_issue_list: new_issue goes to
\* duplicates_found with its best match, or to non_duplicates, ahead of the
\* issues that follow
Sorted(new_issue, duplicate_matches, rest) ==
  IF duplicate_matches # <<>>
  THEN [rest EXCEPT !.duplicates_found =
          <<[new_issue |-> new_issue,
             best_match |-> duplicate_matches[1].issue,
             best_scores |-> duplicate_matches[1].scores]>> \o @]
  ELSE [rest EXCEPT !.non_duplicates = <<new_issue>> \o @]

\* check_issue_list that also checks a new issue against the new issues
\* that follow it in the batch
RECURSIVE check_issue_listAgainstBatch(_, _, _)
check_issue_listAgainstBatch(self, new_issues, existing_issues) ==
  IF new_issues = <<>>
  THEN [non_duplicates |-> <<>>, duplicates_found |-> <<>>]
  ELSE Sorted(Head(new_issues),
              find_duplicates(self, get(Head(new_issues), "title", Str(<<>>)),
                              get(Head(new_issues), "body", Str(<<>>)),
                              existing_issues \o Tail(new_issues)),
              check_issue_listAgainstBatch(self, Tail(new_issues), existing_issues))

\* check_issue_list(new_issues, existing_issues), verbose off
RECURSIVE check_issue_list(_, _, _)
check_issue_list(self, new_issues, existing_issues) ==
  IF new_issues = <<>>
  THEN [non_duplicates |-> <<>>, duplicates_found |-> <<>>]
  ELSE Sorted(Head(new_issues),
              find_duplicates(self, get(Head(new_issues), "title", Str(<<>>)),
                              get(Head(new_issues), "body", Str(<<>>)),
                              existing_issues),
              check_issue_list(self, Tail(new_issues), existing_issues))

\* the checkers: the default thresholds and the strict and the lenient ones
Checkers ==
  { [title_threshold |-> 75, body_threshold |-> 60, combined_threshold |-> 65],
    [title_threshold |-> 90, body_threshold |-> 85, combined_threshold |-> 88],
    [title_threshold |-> 50, body_threshold |-> 40, combined_threshold |-> 45] }

\* the checkers the lists are checked by: the default and the lenient one
ListCheckers == { self \in Checkers : self.title_threshold <= 75 }

\* the titles and the bodies two issues are compared on
IssueTitles ==
  { None, Str(<<>>), Str(<<"a", " ", "b">>), Str(<<"b", " ", "a">>),
    Str(<<"a", "b", "a">>), Str(<<"b", "b">>), Str(<<"A", "!", "b">>) }

IssueBodies == { None, Str(<<>>), Str(<<"a">>), Str(<<"a", " ", "b">>) }

\* the issues the lists are made of: one with both texts, one whose body is
\* None, one that has no body and one whose title is None
Issues ==
  { [title |-> Str(<<"a", " ", "b">>), body |-> Str(<<"a">>)],
    [title |-> Str(<<"b", " ", "a">>), body |-> None],
    [title |-> Str(<<"a", "b", "a">>)],
    [title |-> None, body |-> Str(<<"a">>)] }

\* the titles of the candidates of find_duplicates
ListTitles == { issue.title : issue \in Issues }

\* the lengths of the lists of existing and of new issues
MaxExisting == 2

MaxNew == 2

\* existing_issues: GitHub issues, each with its number, title and body
ExistingLists ==
  UNION { { [i \in 1 .. n |-> [number |-> i] @@ l[i]] :
              l \in [1 .. n -> Issues] } : n \in 0 .. MaxExisting }

\* new_issues: dicts with the keys title and body
NewLists == UNION { [1 .. n -> Issues] : n \in 0 .. MaxNew }

\* checker.calculate_combined_similarity(title1, body1, title2, body2)
CombinedSimilarity ==
  /\ call = NoCall
  /\ \E title1 \in IssueTitles, body1 \in IssueBodies,
        title2 \in IssueTitles, body2 \in IssueBodies :
       call' = [fn |-> "calculate_combined_similarity",
                title1 |-> title1, body1 |-> body1,
                title2 |-> title2, body2 |-> body2,
                out |-> calculate_combined_similarity(title1, body1, title2, body2)]
  /\ UNCHANGED <<execution, workers, history>>

\* IssueDuplicateChecker(...).is_duplicate(new_title, new_body, existing_title,
\* existing_body)
IsDuplicate ==
  /\ call = NoCall
  /\ \E self \in Checkers, new_title \in IssueTitles, new_body \in IssueBodies,
        existing_title \in IssueTitles, existing_body \in IssueBodies :
       call' = [fn |-> "is_duplicate", self |-> self,
                new_title |-> new_title, new_body |-> new_body,
                existing_title |-> existing_title, existing_body |-> existing_body,
                out |-> is_duplicate(self, new_title, new_body,
                                     existing_title, existing_body)]
  /\ UNCHANGED <<execution, workers, history>>

\* IssueDuplicateChecker(...).find_duplicates(new_title, new_body, existing_issues)
FindDuplicates ==
  /\ call = NoCall
  /\ \E self \in ListCheckers, new_title \in ListTitles, new_body \in IssueBodies,
        existing_issues \in ExistingLists :
       call' = [fn |-> "find_duplicates", self |-> self,
                new_title |-> new_title, new_body |-> new_body,
                existing_issues |-> existing_issues,
                out |-> find_duplicates(self, new_title, new_body, existing_issues)]
  /\ UNCHANGED <<execution, workers, history>>

\* IssueDuplicateChecker(...).check_issue_list(new_issues, existing_issues)
CheckIssueList ==
  /\ call = NoCall
  /\ \E self \in ListCheckers, new_issues \in NewLists, existing_issues \in ExistingLists :
       call' = [fn |-> "check_issue_list", self |-> self,
                new_issues |-> new_issues, existing_issues |-> existing_issues,
                out |-> check_issue_list(self, new_issues, existing_issues)]
  /\ UNCHANGED <<execution, workers, history>>

NextDedup ==
  \/ NormalizeText
  \/ SequenceSimilarity
  \/ JaccardSimilarity
  \/ CombinedSimilarity
  \/ IsDuplicate

SpecDedup == Init /\ [][NextDedup]_vars

NextLists ==
  \/ IsDuplicate
  \/ FindDuplicates
  \/ CheckIssueList

SpecLists == Init /\ [][NextLists]_vars

(***************************************************************************)
(* Vocabulary of the claims about the texts                                *)
(***************************************************************************)
\* a letter in its other case
SwapCase(ch) ==
  CASE ch = "a" -> "A"
    [] ch = "A" -> "a"
    [] ch = "b" -> "B"
    [] ch = "B" -> "b"
    [] OTHER -> ch

\* the strings that differ from s in the case of letters only
CaseVariants(s) ==
  { [i \in 1 .. Len(s) |-> IF i \in flip THEN SwapCase(s[i]) ELSE s[i]] :
      flip \in SUBSET (1 .. Len(s)) }

\* the strings that differ from s only in that punctuation marks of marks
\* stand for spaces, spaces for marks, or one mark for another
MarkVariants(s, marks) ==
  LET free == {i \in 1 .. Len(s) : s[i] \in marks \cup {" "}}
  IN  { [i \in 1 .. Len(s) |-> IF i \in free THEN f[i] ELSE s[i]] :
          f \in [free -> marks \cup {" "}] }

\* the strings that differ from s only in that one run of whitespace is
\* longer by a character
RunVariants(s) ==
  { SubSeq(s, 1, i) \o <<w>> \o SubSeq(s, i + 1, Len(s)) :
      i \in {j \in 1 .. Len(s) : s[j] \in SpaceChars}, w \in SpaceChars }

\* punctuation marks that are no word characters, and all of them
Marks == {"!", "-", "."}

AllMarks == Marks \cup {"_"}

C13_Holds(marks) ==
  call.fn = "normalize_text"
    => /\ normalize_text(Str(call.out)) = call.out
       /\ Truthy(call.text)
            => \A y \in CaseVariants(StrOf(call.text))
                          \cup MarkVariants(StrOf(call.text), marks)
                          \cup RunVariants(StrOf(call.text)) :
                 normalize_text(Str(y)) = call.out

(***************************************************************************)
(* C13: normalize_text is idempotent on every input, None and "" included, *)
(* and two inputs normalize to the same string when they differ only in    *)
(* letter case, in the length of a whitespace run, or in punctuation       *)
(* versus spaces,                                                          *)
(* as claimed (C13_AnyPunctuation): for every punctuation mark;            *)
(* as amended (C13_Idempotent): for the marks that are neither word        *)
(* characters nor whitespace, which leaves out the underscore.             *)
(***************************************************************************)
C13_AnyPunctuation == C13_Holds(AllMarks)

C13_Idempotent == C13_Holds(Marks)

\* "A!" is normalized to "a"
C13_Witness ==
  /\ call.fn = "normalize_text"
  /\ call.text = Str(<<"A", "!">>)
  /\ call.out = <<"a">>

\* the tokens of a text
Tokens(text) == split(normalize_text(text))

(***************************************************************************)
(* C14: when the normalization of x is not empty, the sequence similarity  *)
(* of x and any y of the same normalization (x itself among them) is 1.0,  *)
(* and the Jaccard similarity of x and any y of the same tokens, in any    *)
(* order, is 1.0.                                                          *)
(***************************************************************************)
C14_SelfSimilar ==
  /\ ( /\ call.fn = "calculate_sequence_similarity"
       /\ normalize_text(call.text1) # <<>>
       /\ normalize_text(call.text2) = normalize_text(call.text1) )
     => call.out = Unit
  /\ ( /\ call.fn = "calculate_jaccard_similarity"
       /\ normalize_text(call.text1) # <<>>
       /\ Tokens(call.text2) = Tokens(call.text1) )
     => call.out = Unit

\* two texts that differ in case only, compared as sequences
C14_Witness ==
  /\ call.fn = "calculate_sequence_similarity"
  /\ call.text1 = Str(<<"A", " ", "b">>)
  /\ call.text2 = Str(<<"a", " ", "b">>)
  /\ call.out = Unit

(***************************************************************************)
(* C15: the sequence similarity and the Jaccard similarity are 0.0         *)
(* whenever the normalization of either argument is empty, also when the   *)
(* argument itself is not (whitespace, punctuation) and also when both     *)
(* normalizations are empty.                                               *)
(***************************************************************************)
C15_EmptyIsZero ==
  ( /\ call.fn \in {"calculate_sequence_similarity", "calculate_jaccard_similarity"}
    /\ normalize_text(call.text1) = <<>> \/ normalize_text(call.text2) = <<>> )
    => call.out = 0

(***************************************************************************)
(* C16: the scores are symmetric: calculate_combined_similarity with the   *)
(* two issues swapped returns the same title_similarity, body_similarity   *)
(* and combined_similarity.                                                *)
(***************************************************************************)
C16_Symmetric ==
  call.fn = "calculate_combined_similarity"
    => LET swapped == calculate_combined_similarity(call.title2, call.body2,
                                                    call.title1, call.body1)
       IN  /\ swapped.title_similarity = call.out.title_similarity
           /\ swapped.body_similarity = call.out.body_similarity
           /\ swapped.combined_similarity = call.out.combined_similarity

(***************************************************************************)
(* C17: in the scores calculate_combined_similarity returns, each of       *)
(* title_similarity and body_similarity is the larger of its sequence and  *)
(* its Jaccard score, combined_similarity is 0.7 * title_similarity +      *)
(* 0.3 * body_similarity, and the three lie between 0 and 1.               *)
(***************************************************************************)
C17_Scores ==
  call.fn = "calculate_combined_similarity"
    => LET s == call.out
       IN  /\ s.title_similarity \in {s.title_sequence, s.title_jaccard}
           /\ s.title_similarity >= s.title_sequence
           /\ s.title_similarity >= s.title_jaccard
           /\ s.body_similarity \in {s.body_sequence, s.body_jaccard}
           /\ s.body_similarity >= s.body_sequence
           /\ s.body_similarity >= s.body_jaccard
           /\ 10 * s.combined_similarity
                = 7 * s.title_similarity + 3 * s.body_similarity
           /\ \A x \in {s.title_similarity, s.body_similarity, s.combined_similarity} :
                0 <= x /\ x <= Unit

\* titles of the same words in another order, bodies that share a word
C17_Witness ==
  /\ call.fn = "calculate_combined_similarity"
  /\ call.out.title_jaccard = Unit
  /\ call.out.title_sequence < Unit
  /\ call.out.body_similarity = Unit \div 2
  /\ 20 * call.out.combined_similarity = 17 * Unit

(***************************************************************************)
(* C18: is_duplicate answers true exactly when title_similarity is at      *)
(* least the title threshold or combined_similarity at least the combined  *)
(* threshold; another body threshold gives the same answer, and the scores *)
(* are those every other checker returns for the same texts.               *)
(***************************************************************************)
C18_Decision ==
  call.fn = "is_duplicate"
    => LET s == call.out.scores
           again(checker) == is_duplicate(checker, call.new_title, call.new_body,
                                          call.existing_title, call.existing_body)
       IN  /\ call.out.is_dup
                <=> \/ 100 * s.title_similarity >= call.self.title_threshold * Unit
                    \/ 100 * s.combined_similarity >= call.self.combined_threshold * Unit
           /\ \A body_threshold \in {0, 40, 60, 85, 100} :
                again([call.self EXCEPT !.body_threshold = body_threshold]).is_dup
                  = call.out.is_dup
           /\ \A checker \in Checkers : again(checker).scores = s

\* equal bodies, above every body threshold, and no duplicate
C18_Witness ==
  /\ call.fn = "is_duplicate"
  /\ ~call.out.is_dup
  /\ call.out.scores.body_similarity = Unit
  /\ call.out.scores.title_similarity > 0

\* the text an item has under a name, None when it has none
Field(item, name) == IF name \in DOMAIN item THEN item[name] ELSE None

\* is_duplicate of a candidate and the existing item
Verdict(self, title, body, item) ==
  is_duplicate(self, title, body, Field(item, "title"), Field(item, "body"))

(***************************************************************************)
(* C19: find_duplicates returns the existing items is_duplicate flags for  *)
(* the candidate and no others, each once and with its scores, in order of *)
(* non-increasing combined_similarity; nothing when the list of existing   *)
(* items is empty or none is flagged.                                      *)
(***************************************************************************)
C19_FlaggedSorted ==
  call.fn = "find_duplicates"
    => LET out == call.out
           existing == call.existing_issues
           verdicts == { [k |-> k,
                          v |-> Verdict(call.self, call.new_title, call.new_body,
                                        existing[k])] : k \in 1 .. Len(existing) }
           flagged == { r \in verdicts : r.v.is_dup }
       IN  /\ Len(out) = Cardinality(flagged)
           /\ \A r \in flagged :
                 \E i \in 1 .. Len(out) :
                   out[i] = [issue |-> existing[r.k], scores |-> r.v.scores]
           /\ \A i \in 1 .. Len(out), j \in 1 .. Len(out) :
                 i < j => out[i].scores.combined_similarity
                            >= out[j].scores.combined_similarity

\* both existing items are flagged, and the second one comes first
C19_Witness ==
  /\ call.fn = "find_duplicates"
  /\ Len(call.out) = 2
  /\ call.out[1].issue.number = 2
  /\ call.out[1].scores.combined_similarity > call.out[2].scores.combined_similarity

(***************************************************************************)
(* C20: check_issue_list returns every new item once: non_duplicates holds *)
(* the items no existing item is a duplicate of, the report holds the      *)
(* others, both in the order of the input; a report entry names an         *)
(* existing item that is flagged for the new item, with its scores, whose  *)
(* combined_similarity is the largest among the flagged ones.              *)
(***************************************************************************)
C20_Partition ==
  call.fn = "check_issue_list"
    => LET new == call.new_issues
           existing == call.existing_issues
           verdicts == { [i |-> i, k |-> k,
                          v |-> Verdict(call.self, Field(new[i], "title"),
                                        Field(new[i], "body"),
                                        existing[k])] :
                         i \in 1 .. Len(new), k \in 1 .. Len(existing) }
           flagged(i) == { r \in verdicts : r.i = i /\ r.v.is_dup }
           positions == [i \in 1 .. Len(new) |-> i]
           passed == Pick(positions, {i \in DOMAIN new : flagged(i) = {}})
           reported == Pick(positions, {i \in DOMAIN new : flagged(i) # {}})
           report == call.out.duplicates_found
       IN  /\ call.out.non_duplicates = [j \in 1 .. Len(passed) |-> new[passed[j]]]
           /\ Len(report) = Len(reported)
           /\ \A j \in 1 .. Len(report) :
                /\ report[j].new_issue = new[reported[j]]
                /\ \E r \in flagged(reported[j]) :
                     /\ report[j].best_match = existing[r.k]
                     /\ report[j].best_scores = r.v.scores
                     /\ \A o \in flagged(reported[j]) :
                          r.v.scores.combined_similarity
                            >= o.v.scores.combined_similarity

\* the first new item is reported with the second existing item, the better
\* of its two matches, and the second new item is passed
C20_Witness ==
  /\ call.fn = "check_issue_list"
  /\ Len(call.new_issues) = 2
  /\ Len(call.out.non_duplicates) = 1
  /\ call.out.non_duplicates[1] = call.new_issues[2]
  /\ Len(call.out.duplicates_found) = 1
  /\ call.out.duplicates_found[1].best_match.number = 2
  /\ Len(find_duplicates(call.self, Field(call.new_issues[1], "title"),
                         Field(call.new_issues[1], "body"),
                         call.existing_issues)) = 2

(***************************************************************************)
(* C21: check_issue_list classifies each new item as it classifies the     *)
(* item alone against the same existing items: the result of a batch is    *)
(* the results of its items, each checked alone, put together in the order *)
(* of the batch, whatever the other items of the batch are.                *)
(***************************************************************************)
C21_BatchIndependent ==
  call.fn = "check_issue_list"
    => LET new == call.new_issues
           alone(i) == check_issue_list(call.self, <<new[i]>>, call.existing_issues)
           RECURSIVE together(_)
           together(i) ==
             IF i > Len(new)
             THEN [non_duplicates |-> <<>>, duplicates_found |-> <<>>]
             ELSE LET first == alone(i)
                      rest == together(i + 1)
                  IN  [non_duplicates |-> first.non_duplicates \o rest.non_duplicates,
                       duplicates_found |->
                         first.duplicates_found \o rest.duplicates_found]
       IN  call.out = together(1)

\* two equal new items, each of which is_duplicate would flag for the other,
\* are both passed, no existing item being a duplicate of either
C21_Witness ==
  /\ call.fn = "check_issue_list"
  /\ Len(call.new_issues) = 2
  /\ call.new_issues[1] = call.new_issues[2]
  /\ call.existing_issues # <<>>
  /\ call.out.non_duplicates = call.new_issues
  /\ Verdict(call.self, Field(call.new_issues[1], "title"),
             Field(call.new_issues[1], "body"), call.new_issues[2]).is_dup

(***************************************************************************)
(* Vocabulary of the claims about missing texts                            *)
(***************************************************************************)
\* a text that is None or empty
Absent(text) == text \in {None, Str(<<>>)}

\* the text, the empty string when it is None
Blank(text) == IF text = None THEN Str(<<>>) ELSE text

\* the item with the empty string for each text it lacks or has as None
Filled(item) ==
  [name \in DOMAIN item \cup {"title", "body"} |->
     IF name \in {"title", "body"} THEN Blank(Field(item, name)) ELSE item[name]]

\* the scores are 0.0 on each field one of the two items is without
ZeroWhereAbsent(scores, title1, body1, title2, body2) ==
  /\ Absent(title1) \/ Absent(title2)
       => /\ scores.title_similarity = 0
          /\ scores.title_sequence = 0
          /\ scores.title_jaccard = 0
  /\ Absent(body1) \/ Absent(body2)
       => /\ scores.body_similarity = 0
          /\ scores.body_sequence = 0
          /\ scores.body_jaccard = 0

(***************************************************************************)
(* C22: is_duplicate, find_duplicates and check_issue_list return a result *)
(* for items whose title or body is None, empty or not there; the result   *)
(* is the one for the items with the empty string in the place of such a   *)
(* text, and the similarity of a field either item is without is 0.0.      *)
(***************************************************************************)
C22_MissingIsEmpty ==
  /\ call.fn = "is_duplicate"
       => /\ call.out.is_dup \in BOOLEAN
          /\ call.out = is_duplicate(call.self,
                                     Blank(call.new_title), Blank(call.new_body),
                                     Blank(call.existing_title),
                                     Blank(call.existing_body))
          /\ ZeroWhereAbsent(call.out.scores, call.new_title, call.new_body,
                             call.existing_title, call.existing_body)
  /\ call.fn = "find_duplicates"
       => LET existing == call.existing_issues
              filled == find_duplicates(call.self, Blank(call.new_title),
                                        Blank(call.new_body),
                                        [k \in DOMAIN existing |-> Filled(existing[k])])
          IN  /\ Len(call.out) = Len(filled)
              /\ \A i \in DOMAIN call.out :
                   /\ call.out[i].issue \in { existing[k] : k \in DOMAIN existing }
                   /\ Filled(call.out[i].issue) = filled[i].issue
                   /\ call.out[i].scores = filled[i].scores
                   /\ ZeroWhereAbsent(call.out[i].scores,
                                      call.new_title, call.new_body,
                                      Field(call.out[i].issue, "title"),
                                      Field(call.out[i].issue, "body"))
  /\ call.fn = "check_issue_list"
       => LET new == call.new_issues
              existing == call.existing_issues
              report == call.out.duplicates_found
              filled == check_issue_list(call.self,
                                         [i \in DOMAIN new |-> Filled(new[i])],
                                         [k \in DOMAIN existing |-> Filled(existing[k])])
          IN  /\ Len(call.out.non_duplicates) = Len(filled.non_duplicates)
              /\ \A j \in DOMAIN call.out.non_duplicates :
                   Filled(call.out.non_duplicates[j]) = filled.non_duplicates[j]
              /\ Len(report) = Len(filled.duplicates_found)
              /\ \A j \in DOMAIN report :
                   /\ Filled(report[j].new_issue) = filled.duplicates_found[j].new_issue
                   /\ Filled(report[j].best_match) = filled.duplicates_found[j].best_match
                   /\ report[j].best_scores = filled.duplicates_found[j].best_scores
                   /\ ZeroWhereAbsent(report[j].best_scores,
                                      Field(report[j].new_issue, "title"),
                                      Field(report[j].new_issue, "body"),
                                      Field(report[j].best_match, "title"),
                                      Field(report[j].best_match, "body"))

\* a new item without a body is reported as a duplicate of an existing item
\* without a body, on their titles alone, a new item whose title is None is
\* passed, and the body of another existing item is None
C22_Witness ==
  /\ call.fn = "check_issue_list"
  /\ \E j \in DOMAIN call.out.duplicates_found :
       /\ "body" \notin DOMAIN call.out.duplicates_found[j].new_issue
       /\ "body" \notin DOMAIN call.out.duplicates_found[j].best_match
       /\ call.out.duplicates_found[j].best_scores.title_similarity = Unit
       /\ call.out.duplicates_found[j].best_scores.body_similarity = 0
  /\ \E j \in DOMAIN call.out.non_duplicates :
       Field(call.out.non_duplicates[j], "title") = None
  /\ \E k \in DOMAIN call.existing_issues :
       /\ "body" \in DOMAIN call.existing_issues[k]
       /\ call.existing_issues[k].body = None

(***************************************************************************)
(* C30: the items find_duplicates returns with equal combined_similarity   *)
(* are in their order in existing_issues, and the best match that          *)
(* check_issue_list reports is the first item in existing_issues among the *)
(* flagged ones of the largest combined_similarity.                        *)
(***************************************************************************)
C30_TiesInOrder ==
  /\ call.fn = "find_duplicates"
       => \A i \in DOMAIN call.out, j \in DOMAIN call.out :
            /\ i < j
            /\ call.out[i].scores.combined_similarity
                 = call.out[j].scores.combined_similarity
            => call.out[i].issue.number < call.out[j].issue.number
  /\ call.fn = "check_issue_list"
       => \A j \in DOMAIN call.out.duplicates_found :
            LET entry == call.out.duplicates_found[j]
            IN  \A k \in 1 .. entry.best_match.number - 1 :
                  LET earlier == Verdict(call.self, Field(entry.new_issue, "title"),
                                         Field(entry.new_issue, "body"),
                                         call.existing_issues[k])
                  IN  earlier.is_dup
                        => earlier.scores.combined_similarity
                             < entry.best_scores.combined_similarity

\* two existing items of different titles are flagged for a new item with the
\* same combined_similarity, and the first of them is reported
C30_Witness ==
  /\ call.fn = "check_issue_list"
  /\ Len(call.existing_issues) = 2
  /\ Field(call.existing_issues[1], "title") # Field(call.existing_issues[2], "title")
  /\ \E j \in DOMAIN call.out.duplicates_found :
       LET entry == call.out.duplicates_found[j]
           second == Verdict(call.self, Field(entry.new_issue, "title"),
                             Field(entry.new_issue, "body"), call.existing_issues[2])
       IN  /\ entry.best_match = call.existing_issues[1]
           /\ second.is_dup
           /\ second.scores.combined_similarity
                = entry.best_scores.combined_similarity

(***************************************************************************)
(* C23: the delay passed to sleep never exceeds max_delay, also when       *)
(* jitter is enabled, for every attempt index and every failure kind, in   *)
(* utils/retry.py and in utils/retry_handler.py alike.  Stated for the     *)
(* well-formed policies alone, so that a violation owes nothing to a       *)
(* misconfiguration.  Both modules add the jitter to the capped delay and  *)
(* do not cap the sum, so the statement is violated.                       *)
(***************************************************************************)
C23_DelayCapped ==
  (pc = "sleeping" /\ WellConfigured(config)) => delay <= config.max_delay

\* what does hold: without jitter, and on the hint path of retry.py, the
\* cap is kept; with jitter the sum stays within the jitter fraction of it
C23_CappedUpToJitter ==
  pc = "sleeping"
    => IF module \in RetryFamily
       THEN IF config.jitter /\ RetryAfterOf(last_exception) = {}
            THEN delay * Quarter * Tenth
                   <= Max(Quarter * Sec, config.max_delay * (Quarter + 1) * Tenth)
            ELSE delay <= config.max_delay
       ELSE delay * JDen <= config.max_delay * (JDen + config.jitter_range)

\* a jittered sleep of retry.py longer than max_delay
C23_OverRetry ==
  /\ pc = "sleeping"
  /\ module = "retry"
  /\ WellConfigured(config)
  /\ config.jitter
  /\ delay > config.max_delay

\* a jittered sleep of retry_handler.py longer than max_delay
C23_OverHandler ==
  /\ pc = "sleeping"
  /\ module \in HandlerFamily
  /\ WellConfigured(config)
  /\ delay > config.max_delay

(***************************************************************************)
(* C24: in utils/retry.py a failure is retried exactly when the exception  *)
(* is an instance of one of the caller's retryable_exceptions or its       *)
(* lowercased message contains one of timeout, timed out, connection,      *)
(* network, temporary, unavailable, 502, 503, 429, rate limit, too many    *)
(* requests; every other failure is Fatal.  On an attempt that is not the  *)
(* last one, the wrapper sleeps after a failure if and only if should_retry *)
(* holds of it, and otherwise raises it at once.                           *)
(***************************************************************************)
C24_Markers ==
  {"timeout", "timed out", "connection", "network", "temporary",
   "unavailable", "502", "503", "429", "rate limit", "too many requests"}

C24_Retryable(e) ==
  \/ \E c \in catch.exceptions : IsSubclass(e.type, c)
  \/ \E m \in C24_Markers : m \in e.markers

C24_ShouldRetry ==
  (module \in RetryFamily /\ OpFailed)
    => /\ pc \in {"sleeping", "loop"} => C24_Retryable(Seen)
       /\ (pc = "raised" /\ attempt < config.max_retries)
            => /\ ~C24_Retryable(Seen)
               /\ result = Raised(Seen)
               /\ op.exc.at = calls

\* a ValueError outside the allowlist is retried for its message alone
C24_Witness ==
  /\ pc = "sleeping"
  /\ module = "retry"
  /\ catch.exceptions = ApiRetryable
  /\ Seen.type = "ValueError"
  /\ "too many requests" \in Seen.markers

\* a failure with a marker that is not in the list is Fatal
C24_FatalWitness ==
  /\ pc = "raised"
  /\ module = "retry"
  /\ attempt < config.max_retries
  /\ Seen.type = "ValueError"
  /\ Seen.markers = {"500"}

(***************************************************************************)
(* C25: retry_github_api of utils/retry.py classifies a failure as         *)
(* RateLimited exactly when its lowercased message contains "rate limit",  *)
(* "too many requests", "429", or both "403" and "abuse"; a failure whose  *)
(* message contains "403" and no rate-limit, abuse or transient marker is  *)
(* Fatal: it is raised at once, after a single invocation and no sleep.    *)
(* classify_github_exception takes "403" alone (and "abuse" alone) for a   *)
(* rate limit and does not look for "429" or "too many requests", so the   *)
(* statement is violated.                                                  *)
(***************************************************************************)
C25_RateLimited(markers) ==
  \/ "rate limit" \in markers
  \/ "too many requests" \in markers
  \/ "429" \in markers
  \/ {"403", "abuse"} \subseteq markers

C25_GithubRateLimited ==
  (module = "retry_github" /\ OpFailed)
    => /\ Seen.type = "RateLimitError" <=> C25_RateLimited(op.exc.markers)
       /\ op.exc.markers = {"403"}
            => /\ pc = "raised"
               /\ calls = 1
               /\ sleeps = 0
               /\ result = Raised(Seen)

\* the 403-only half alone: an authorization failure is retried
C25_ForbiddenIsFatal ==
  (module = "retry_github" /\ OpFailed /\ op.exc.markers = {"403"})
    => pc = "raised" /\ calls = 1

\* the classification half alone: 429 is not taken for a rate limit
C25_ClassifiedExactly ==
  (module = "retry_github" /\ OpFailed)
    => (Seen.type = "RateLimitError" <=> C25_RateLimited(op.exc.markers))

\* a 403-only failure retried until the budget of GITHUB_RETRY_CONFIG is spent
C25_ForbiddenRetried ==
  /\ pc = "raised"
  /\ module = "retry_github"
  /\ op.exc.markers = {"403"}
  /\ calls = GITHUB_RETRY_CONFIG.max_retries + 1
  /\ result.exc.type = "RateLimitError"

(***************************************************************************)
(* C26: in utils/retry.py retry_with_backoff, on_retry is called exactly   *)
(* once per retry, after the failed attempt and before the sleep that      *)
(* precedes the next attempt, with the exception just raised, the 1-based  *)
(* retry number and the delay that is then slept; it is never called after *)
(* a success, a fatal failure or the exhausting failure.  While on_retry   *)
(* runs it has been called once per failed invocation and the sleep of     *)
(* this retry has not begun; from the sleep on it has been called once per *)
(* sleep, so an execution that ended made one call less than invocations.  *)
(***************************************************************************)
C26_OnRetry ==
  /\ (module = "retry" /\ on_retry.given)
       => /\ pc = "on_retry"
               => /\ on_retry.count = calls
                  /\ sleeps = calls - 1
                  /\ op.exc.at = calls
                  /\ attempt < config.max_retries
                  /\ on_retry.args = <<op.exc, attempt + 1, delay>>
          /\ pc = "sleeping"
               => /\ on_retry.count = sleeps
                  /\ on_retry.args = <<op.exc, sleeps, delay>>
          /\ pc \in {"ready", "loop", "returned", "raised"}
               => on_retry.count = sleeps
          /\ (pc \in {"returned", "raised"} /\ calls > 0)
               => on_retry.count = calls - 1
  /\ ~(module = "retry" /\ on_retry.given)
       => pc # "on_retry" /\ on_retry.count = 0

\* the second retry: on_retry runs with retry number 2 before the second sleep
C26_Witness ==
  /\ pc = "on_retry"
  /\ module = "retry"
  /\ on_retry.count = 2
  /\ on_retry.args[2] = 2
  /\ on_retry.args[3] = delay
  /\ delay > 0
  /\ sleeps = 1

\* an execution with a callback that ended on the exhausting failure
C26_ExhaustedWitness ==
  /\ pc = "raised"
  /\ module = "retry"
  /\ on_retry.given
  /\ calls = 3
  /\ on_retry.count = 2

(***************************************************************************)
(* C27: as long as every call of the operation and every sleep returns,    *)
(* every call of a retry wrapper ends, and it has then invoked the         *)
(* operation at most max_retries + 1 times, whatever the outcomes were; in *)
(* utils/retry_handler.py the rate-limited and the generic failures count  *)
(* against the same attempt index, so any mix of them has the same bound.  *)
(***************************************************************************)
C27_Ended == pc \in {"returned", "raised"}

C27_Bounded ==
  /\ calls <= config.max_retries + 1
  /\ sleeps <= calls
  /\ pc \in {"loop", "on_retry", "sleeping"} => attempt <= config.max_retries

C27_Terminates ==
  /\ []C27_Bounded
  /\ (pc = "ready") ~> C27_Ended
  /\ [][C27_Ended => UNCHANGED execution]_vars

\* a handler execution with a rate-limit clause that spent its whole budget
C27_Witness ==
  /\ pc = "raised"
  /\ module = "handler"
  /\ catch.rate_limit_exceptions = {"RateLimitError"}
  /\ op.exc.type = "ConnectionError"
  /\ sleeps = MaxRetries
  /\ calls = config.max_retries + 1
  /\ calls = MaxRetries + 1
  /\ OneCurve(config)

(***************************************************************************)
(* C28: for every integer max_retries, each call of retry_with_backoff's   *)
(* wrapper (utils/retry.py and utils/retry_handler.py) and of              *)
(* RetryableAPICall.execute invokes the operation at least once and ends   *)
(* returning a value the operation returned or raising an exception the    *)
(* operation raised: never a value the operation did not produce, never an *)
(* error of the retry machinery's own.  With a negative max_retries the    *)
(* loop body never runs, so the statement is violated.                     *)
(***************************************************************************)
C28_Wrappers == {"retry", "handler", "execute"}

C28_OperationOutcome ==
  (module \in C28_Wrappers /\ pc \in {"returned", "raised"})
    => /\ calls >= 1
       /\ pc = "returned" => op.value \in Values /\ result = Returned(op.value)
       /\ pc = "raised" => op.exc.by = "op" /\ result = Raised(op.exc)

\* the same for the policies with max_retries >= 0, where it holds
C28_NonNegative ==
  (module \in C28_Wrappers /\ pc \in {"returned", "raised"} /\ config.max_retries >= 0)
    => /\ calls >= 1
       /\ pc = "returned" => op.value \in Values /\ result = Returned(op.value)
       /\ pc = "raised" => op.exc.by = "op" /\ result = Raised(op.exc)

\* retry_handler.py returns None without having invoked the operation
C28_NoneReturned ==
  /\ pc = "returned"
  /\ module \in HandlerFamily
  /\ config.max_retries < 0
  /\ calls = 0
  /\ result = Returned("None")

\* retry.py raises the TypeError of raise None
C28_TypeErrorRaised ==
  /\ pc = "raised"
  /\ module = "retry"
  /\ config.max_retries < 0
  /\ calls = 0
  /\ result.exc.type = "TypeError"
  /\ result.exc.by = "machinery"

(***************************************************************************)
(* C29: in utils/retry_handler.py retry_with_backoff, an exception whose   *)
(* type matches both rate_limit_exceptions and exceptions (a               *)
(* RateLimitExceededException under exceptions=(GithubException,), as      *)
(* retry_github_api configures it) is always handled on the rate-limit     *)
(* path: the sleep that follows it has the rate-limit delay, the curve of  *)
(* twice the base delay one attempt ahead within its jitter band, and not  *)
(* the generic delay.                                                      *)
(***************************************************************************)
C29_MatchesBoth(e) ==
  /\ \E c \in catch.rate_limit_exceptions : IsSubclass(e.type, c)
  /\ \E c \in catch.exceptions : IsSubclass(e.type, c)

C29_RateLimitCurve ==
  Curve(2 * config.base_delay, config.multiplier, config.max_delay, attempt + 1)

C29_GenericCurve ==
  Curve(config.base_delay, config.multiplier, config.max_delay, attempt)

C29_RateLimitFirst ==
  (module = "handler" /\ OpFailed /\ C29_MatchesBoth(op.exc))
    => /\ pc = "sleeping"
            => /\ last_exception = op.exc
               /\ attempt < config.max_retries
               /\ delay * JDen >= C29_RateLimitCurve * (JDen - config.jitter_range)
               /\ delay * JDen <= C29_RateLimitCurve * (JDen + config.jitter_range)
               /\ config.jitter_range = 0 => delay = C29_RateLimitCurve
       /\ pc = "raised" => attempt = config.max_retries /\ result = Raised(op.exc)

\* a RateLimitExceededException, also a GithubException, followed by the
\* rate-limit delay where the generic delay would be another
C29_Witness ==
  /\ pc = "sleeping"
  /\ module = "handler"
  /\ catch.exceptions = {"GithubException"}
  /\ op.exc.type = "RateLimitExceededException"
  /\ C29_MatchesBoth(op.exc)
  /\ config.jitter_range = 0
  /\ delay = C29_RateLimitCurve
  /\ delay # C29_GenericCurve

=============================================================================
